---- MODULE Spec2Model ----
(***************************************************************************)
(* State-machine model of lmshao/network (Linux platform layer):           *)
(*   - TaskQueue            src/src/task_queue.cpp, src/src/task_queue.h    *)
(*   - EventReactor         src/src/platforms/linux/event_reactor.cpp       *)
(*   - TcpServerImpl and TcpConnectionHandler                               *)
(*                          src/src/platforms/linux/tcp_server_impl.cpp     *)
(*   - TcpClientImpl        src/src/platforms/linux/tcp_client_impl.cpp     *)
(* The local-domain (unix) endpoints repeat the TCP code line for line, so  *)
(* the TCP definitions stand for both.                                      *)
(***************************************************************************)
EXTENDS Integers, Sequences, FiniteSets, TLC

VARIABLES
    \* ---- TaskQueue (task_queue.h:188-195) ----
    taskList_,          \* std::list<TaskHandlerItem>, [task, executeTimeNs_]
    isExit_,            \* bool isExit_ = true
    thread_,            \* thread_ != nullptr
    isTaskExecuting_,   \* bool isTaskExecuting_
    state_,             \* TaskHandler::state_ of every task object
    wpc,                \* position of the worker thread in TaskProcessor
    witem,              \* the item the worker popped (0: none)
    ownerPc,            \* position of the thread that calls Start/Stop
    clock,              \* std::chrono::steady_clock::now(), in ns
    enq,                \* history: every EnqueueTask call, [cb, delayUs, ret]
    executed,           \* history: tasks whose function was invoked, in order
    \* ---- kernel ----
    backlog,            \* connections waiting in the listen queue
    openFds,            \* connection descriptors open in the process
    epollInterest,      \* epoll interest list: descriptor -> event mask ({}: absent)
    readyList,          \* descriptors on the epoll ready list
    rcvBuf,             \* per connection: chunks received and not yet read
    peerClosed,         \* connections whose peer has sent FIN
    sockErr,            \* per connection: SO_ERROR pending ("reported": recv has returned it)
    sndSpace,           \* per connection: free bytes in the socket send buffer
    wire,               \* per connection: the bytes send() took, in order
    \* ---- EventReactor (event_reactor.h:64-74) ----
    handlers_,          \* keys of std::unordered_map handlers_
    rpc,                \* position of the reactor thread
    rfd,                \* the descriptor being dispatched
    revents,            \* event flags of the dispatch not yet handled
    rev,                \* the events argument of a pending ModifyHandler call
    \* ---- TcpServerImpl (tcp_server_impl.h) and its connection handlers ----
    srvStarted,         \* serverHandler_ is registered
    accepted,           \* number of accepted descriptors so far: 1..accepted
    sessions_,          \* keys of sessions_
    connectionHandlers_,\* keys of connectionHandlers_
    sendQueue_,         \* per connection handler: sendQueue_
    writeEventsEnabled_,\* per connection handler: writeEventsEnabled_
    \* ---- threads that call Send ----
    apc,                \* position of each calling thread
    acall,              \* the Send call each thread is in (index into sends)
    aev,                \* the events argument of a pending ModifyHandler call
    sends,              \* history: every Send call, [thr, fd, buf, ret]
    \* ---- TcpClientImpl (tcp_client_impl.h) ----
    socket_,            \* socket_ (INVALID_SOCKET or the descriptor)
    clientHandler_,     \* clientHandler_ != nullptr
    cpc,                \* position of the thread that calls Connect and Close
    closedAt,           \* history: Len(executed) when Close() returned (-1: not yet)
    \* ---- TaskQueue::Stop: the thread swapped out of thread_ and being joined ----
    jpc,                \* position of that worker in TaskProcessor
    jitem,              \* the item that worker popped (0: none)
    \* ---- history of the returns of TaskQueue::Start and TaskQueue::Stop ----
    life,
    \* ---- one DataBuffer ----
    data_,              \* the bytes of the allocation, <<>> for nullptr
    size_,
    capacity_,
    nops,               \* number of member calls made on the buffer
    lastOp,             \* the last member call and its argument
    \* ---- the receive buffers of a TcpServerImpl and a UdpServerImpl ----
    readBuffer_,        \* per endpoint, the DataBuffer recv and recvfrom write into
    made,               \* the DataBuffers created for OnReceive, in creation order
    received,           \* per recv that returned data: the bytes, the buffer handed on
    \* ---- the byte stream of one connection ----
    streamSent,         \* bytes the peer has written to the connection
    streamRead,         \* bytes recv has returned to HandleReceive
    \* ---- ThreadPool ----
    tasks_,             \* the normal queue (task ids)
    serialTasks_,       \* per tag, the queue of waiting serial tasks
    runningSerialTags_,
    availableSerialTags_,
    tpc,                \* per worker thread, its position in Worker ("none": not created)
    ttask,              \* per worker thread, the task it took (0: none)
    added,              \* the tags of the tasks given to AddTask, in call order
    ran,                \* the tasks whose fn was called, in call order
    \* ---- the DataBuffer pool ----
    t_localPool,        \* per thread, the thread-local tier (buffer ids, back last)
    g_bufferPool,       \* the global tier
    held,               \* the buffers whose shared_ptr a holder has, oldest first
    nextId,             \* buffers created so far
    lastAlloc,          \* what the last PoolAlloc of at most 4096 bytes returned
    bpc,                \* the holder: "idle", "alloc", "release"
    bkind,              \* what the holder does with the buffers of this burst
    bleft,              \* buffers the holder still allocates in this burst
    brel,               \* the thread on which the holder lets go of them
    nbursts,
    \* ---- UdpServerImpl: the socket and the reactor's turns on it ----
    udpQueue,           \* datagrams in the socket's receive queue, oldest first
    udpReady,           \* the socket is on epoll's ready list
    udpc,               \* the reactor: "idle", or "read" inside HandleRead
    udpCalls,           \* the OnReceive calls made: session host and port, data
    udpSent,            \* datagrams the peers have sent
    \* ---- EventReactor: construction, the loop thread, RegisterHandler ----
    running_,
    epollFd_,
    ctorPc,             \* the thread in EventReactor::EventReactor: "none", "wait", "returned"
    runPc,              \* the loop thread in Run: "none", "start", "created", "loop", "exited"
    regPc,              \* TcpServerImpl::Start in RegisterHandler: "none", "added",
                        \* "registered" (true), "not_running" (false)
    \* ---- TcpServerImpl::Stop on the caller's thread ----
    stopPc,             \* "none", "clients", "listener", "queue" (in taskQueue_->Stop())
    clientFds,          \* the descriptors of Stop's vector not yet closed
    \* ---- history of the TaskHandler::Cancel calls of task holders ----
    cancels             \* per call: the task it was made on

tqVars == <<taskList_, isExit_, thread_, isTaskExecuting_, state_, wpc, witem,
            ownerPc, clock, enq, executed>>

kVars == <<backlog, openFds, epollInterest, readyList, rcvBuf, peerClosed, sockErr,
           sndSpace, wire>>
rVars == <<handlers_, rpc, rfd, revents, rev>>
eVars == <<srvStarted, accepted, sessions_, connectionHandlers_, sendQueue_,
           writeEventsEnabled_>>
aVars == <<apc, acall, aev, sends>>
cVars == <<socket_, clientHandler_, cpc, closedAt>>
jVars == <<jpc, jitem>>
lVars == <<life>>
dbVars == <<data_, size_, capacity_, nops, lastOp>>
rbVars == <<readBuffer_, made, received>>
stVars == <<streamSent, streamRead>>
plVars == <<t_localPool, g_bufferPool, held, nextId, lastAlloc, bpc, bkind, bleft,
            brel, nbursts>>
tpVars == <<tasks_, serialTasks_, runningSerialTags_, availableSerialTags_, tpc, ttask,
            added, ran>>
udVars == <<udpQueue, udpReady, udpc, udpCalls, udpSent>>
erVars == <<running_, epollFd_, ctorPc, runPc, regPc>>
spVars == <<stopPc, clientFds>>
ccVars == <<cancels>>
bVars == <<dbVars, rbVars, stVars, tpVars, plVars, udVars, erVars, spVars, ccVars>>
vars == <<tqVars, kVars, rVars, eVars, aVars, cVars, jVars, lVars, bVars>>

\* ---------------------------------------------------------------- bounds
MaxTasks == 3           \* EnqueueTask calls in one behaviour
MaxConns == 2           \* connections the peers open
MaxChunks == 2          \* chunks a peer sends on one connection
MaxSends == 2           \* Send calls in one behaviour
MaxLen == 2             \* bytes in one Send payload
SndCap == 1             \* bytes the socket send buffer holds
MaxTicks == 1           \* the steady clock is read within MaxTicks us (+1 ns) of 0

\* ------------------------------------------------------- program constants
MAX_DELAY_US == 10000000
US_TO_NS == 1000
INVALID_SOCKET == -1

\* ---------------------------------------------------------------- helpers
Min(a, b) == IF a < b THEN a ELSE b

SeqRange(s) == {s[i] : i \in DOMAIN s}

Delays == {0, 1}        \* delayUs values the callers pass
TaskIds == 1..(MaxTasks + MaxConns * (MaxChunks + 2) + 1)

\* ============================ TaskQueue ==================================

TqInit ==
    /\ taskList_ = <<>>
    /\ isExit_ = TRUE
    /\ thread_ = FALSE
    /\ isTaskExecuting_ = FALSE
    /\ state_ = [t \in TaskIds |-> "IDLE"]
    /\ wpc = "dead"
    /\ witem = 0
    /\ ownerPc = "idle"
    /\ clock = 0
    /\ enq = <<>>
    /\ executed = <<>>

\* TaskHandler::Cancel: no effect on a RUNNING task
CancelState(s) == IF s # "RUNNING" THEN "CANCELED" ELSE s

\* a ClearResult that resets a CANCELED task as well
ClearState_canceled(s) == IF s \in {"FINISHED", "CANCELED"} THEN "IDLE" ELSE s

\* TaskHandler::ClearResult, called by Clear(): FINISHED goes back to IDLE
ClearState(s) == IF s = "FINISHED" THEN "IDLE" ELSE s

\* CancelNotExecutedTaskLocked: pop every item and Cancel() it
CancelAll(list, st) ==
    [t \in DOMAIN st |->
        IF \E i \in DOMAIN list : list[i].task = t THEN CancelState(st[t]) ELSE st[t]]

\* the find_if predicate of EnqueueTask: the first item that must stay behind
InsertBefore_strictless(itemTime, executeTimeNs) == itemTime >= executeTimeNs

InsertBefore(itemTime, executeTimeNs) == itemTime > executeTimeNs

\* an insert at the head of the list: push_front
InsertPos_front(list, executeTimeNs) == 1

\* an insert that ignores the execution times: push_back
InsertPos_back(list, executeTimeNs) == Len(list) + 1

\* std::find_if + list::insert: position of the new item
InsertPos(list, executeTimeNs) ==
    IF \E i \in DOMAIN list : InsertBefore(list[i].executeTimeNs_, executeTimeNs)
    THEN CHOOSE i \in DOMAIN list :
            /\ InsertBefore(list[i].executeTimeNs_, executeTimeNs)
            /\ \A j \in 1..(i - 1) : ~InsertBefore(list[j].executeTimeNs_, executeTimeNs)
    ELSE Len(list) + 1

InsertAt(list, pos, item) ==
    SubSeq(list, 1, pos - 1) \o <<item>> \o SubSeq(list, pos, Len(list))

EnqueueRet_nostop(delayUs) ==
    IF delayUs >= MAX_DELAY_US THEN -1
    ELSE 0

EnqueueRet_greater(delayUs) ==
    IF delayUs > MAX_DELAY_US THEN -1
    ELSE IF isExit_ THEN -1
    ELSE 0

\* the return value of EnqueueTask for a non-null task.  The timestamp overflow
\* test (curTimeNs >= UINT64_MAX - delayUs * US_TO_NS) needs a steady clock
\* within 10 s of 2^64 ns; no clock value of the model is near it.
EnqueueRet(delayUs) ==
    IF delayUs >= MAX_DELAY_US THEN -1
    ELSE IF isExit_ THEN -1
    ELSE 0

\* TaskQueue::EnqueueTask(task, cancelNotExecuted, delayUs) with a fresh task
\* object carrying the callback cb
EnqueueTask(cb, cancelNotExecuted, delayUs) ==
    LET t == Len(enq) + 1
        ret == EnqueueRet(delayUs)
        base == IF cancelNotExecuted THEN <<>> ELSE taskList_
        st1 == [state_ EXCEPT ![t] = ClearState(@)]
        st2 == IF cancelNotExecuted THEN CancelAll(taskList_, st1) ELSE st1
        executeTimeNs == delayUs * US_TO_NS + clock
    IN  /\ enq' = Append(enq, [cb |-> cb, delayUs |-> delayUs, ret |-> ret])
        /\ IF ret = 0
           THEN /\ taskList_' = InsertAt(base, InsertPos(base, executeTimeNs),
                                         [task |-> t, executeTimeNs_ |-> executeTimeNs])
                /\ state_' = st2
           ELSE /\ taskList_' = taskList_
                /\ state_' = st1

\* TaskQueue::Start
TqStart ==
    /\ UNCHANGED <<kVars, rVars, eVars, aVars>>
    /\ ownerPc = "idle"
    /\ wpc # "terminated"
    /\ IF thread_
       THEN UNCHANGED <<isExit_, thread_, wpc>>
       ELSE /\ isExit_' = FALSE
            /\ thread_' = TRUE
            /\ wpc' = "wait"
    /\ UNCHANGED <<taskList_, isTaskExecuting_, state_, witem, ownerPc, clock, enq, executed>>
    /\ UNCHANGED cVars
    /\ UNCHANGED <<jVars, lVars, bVars>>

\* TaskQueue::Stop up to t->join()
TqStopBegin ==
    /\ UNCHANGED <<kVars, rVars, eVars, aVars>>
    /\ ownerPc = "idle"
    /\ wpc # "terminated"
    /\ IF isExit_
       THEN UNCHANGED <<isExit_, thread_, ownerPc>>
       ELSE /\ isExit_' = TRUE
            /\ thread_' = FALSE
            /\ ownerPc' = "joining"
    /\ UNCHANGED <<taskList_, isTaskExecuting_, state_, wpc, witem, clock, enq, executed>>
    /\ UNCHANGED cVars
    /\ UNCHANGED <<jVars, lVars, bVars>>

\* TaskQueue::Stop after the join: CancelNotExecutedTaskLocked
TqStopEnd ==
    /\ UNCHANGED <<kVars, rVars, eVars, aVars>>
    /\ ownerPc = "joining"
    /\ wpc = "dead"
    /\ ownerPc' = "idle"
    /\ state_' = CancelAll(taskList_, state_)
    /\ taskList_' = <<>>
    /\ UNCHANGED <<isExit_, thread_, isTaskExecuting_, wpc, witem, clock, enq, executed>>
    /\ UNCHANGED cVars
    /\ UNCHANGED <<jVars, lVars, bVars>>

\* TaskProcessor: the wait returns with isExit_ set
TaskProcessorExit ==
    /\ UNCHANGED <<kVars, rVars, eVars, aVars>>
    /\ wpc = "wait"
    /\ isExit_
    /\ wpc' = "dead"
    /\ UNCHANGED <<taskList_, isExit_, thread_, isTaskExecuting_, state_, witem,
                   ownerPc, clock, enq, executed>>
    /\ UNCHANGED cVars
    /\ UNCHANGED <<jVars, lVars, bVars>>

\* TaskProcessor: the front item is due and is popped
TaskProcessorTake ==
    /\ UNCHANGED <<kVars, rVars, eVars, aVars>>
    /\ wpc = "wait"
    /\ ~isExit_
    /\ taskList_ # <<>>
    /\ clock >= Head(taskList_).executeTimeNs_
    /\ witem' = Head(taskList_).task
    /\ taskList_' = Tail(taskList_)
    /\ isTaskExecuting_' = TRUE
    /\ wpc' = "check"
    /\ UNCHANGED <<isExit_, thread_, state_, ownerPc, clock, enq, executed>>
    /\ UNCHANGED cVars
    /\ UNCHANGED <<jVars, lVars, bVars>>

\* TaskProcessor: IsCanceled check, then TaskHandler::Execute up to task_()
TaskProcessorExecute ==
    /\ UNCHANGED <<kVars, rVars, eVars, aVars>>
    /\ wpc = "check"
    /\ IF state_[witem] = "IDLE"
       THEN /\ state_' = [state_ EXCEPT ![witem] = "RUNNING"]
            /\ executed' = Append(executed, witem)
            /\ wpc' = "run"
            /\ UNCHANGED <<isTaskExecuting_, witem>>
       ELSE /\ isTaskExecuting_' = FALSE
            /\ wpc' = "wait"
            /\ witem' = 0
            /\ UNCHANGED <<state_, executed>>
    /\ UNCHANGED <<taskList_, isExit_, thread_, ownerPc, clock, enq>>
    /\ UNCHANGED cVars
    /\ UNCHANGED <<jVars, lVars, bVars>>

\* TaskHandler::Execute after task_() returned, and the worker's loop tail
TaskProcessorDone ==
    /\ UNCHANGED <<kVars, rVars, eVars, aVars>>
    /\ wpc = "run"
    /\ state_' = [state_ EXCEPT ![witem] = "FINISHED"]
    /\ isTaskExecuting_' = FALSE
    /\ wpc' = "wait"
    /\ witem' = 0
    /\ UNCHANGED <<taskList_, isExit_, thread_, ownerPc, clock, enq, executed>>
    /\ UNCHANGED cVars
    /\ UNCHANGED <<jVars, lVars, bVars>>

\* the instants at which the steady clock is read: whole microseconds and
\* one nanosecond after them
Instants == {k * US_TO_NS + e : k \in 0..MaxTicks, e \in {0, 1}}

\* the steady clock advances
Tick ==
    /\ UNCHANGED <<kVars, rVars, eVars, aVars>>
    /\ wpc # "terminated"
    /\ \E c \in Instants :
          /\ c > clock
          /\ clock' = c
    /\ UNCHANGED <<taskList_, isExit_, thread_, isTaskExecuting_, state_, wpc, witem,
                   ownerPc, enq, executed>>
    /\ UNCHANGED cVars
    /\ UNCHANGED <<jVars, lVars, bVars>>

\* a caller of EnqueueTask
TqEnqueue ==
    /\ UNCHANGED <<kVars, rVars, eVars, aVars>>
    /\ wpc # "terminated"
    /\ Len(enq) < MaxTasks
    /\ \E cancelNotExecuted \in BOOLEAN, delayUs \in Delays :
          EnqueueTask([kind |-> "user", fd |-> 0, data |-> 0], cancelNotExecuted, delayUs)
    /\ UNCHANGED <<isExit_, thread_, isTaskExecuting_, wpc, witem, ownerPc, clock, executed>>
    /\ UNCHANGED cVars
    /\ UNCHANGED <<jVars, lVars, bVars>>

\* a holder of a task calls TaskHandler::Cancel on it
TqCancel ==
    /\ UNCHANGED <<kVars, rVars, eVars, aVars>>
    /\ \E t \in DOMAIN enq :
          /\ state_[t] \in {"IDLE", "FINISHED"}
          /\ state_' = [state_ EXCEPT ![t] = CancelState(@)]
    /\ UNCHANGED <<taskList_, isExit_, thread_, isTaskExecuting_, wpc, witem, ownerPc,
                   clock, enq, executed>>
    /\ UNCHANGED cVars
    /\ UNCHANGED <<jVars, lVars, bVars>>

TqWorker == TaskProcessorExit \/ TaskProcessorTake \/ TaskProcessorExecute \/ TaskProcessorDone

TqNext ==
    \/ TqStart
    \/ TqStopBegin
    \/ TqStopEnd
    \/ TqEnqueue
    \/ TqCancel
    \/ Tick
    \/ TqWorker

\* a task that EnqueueTask accepted with delay 0
AcceptedNow(t) == enq[t].ret = 0 /\ enq[t].delayUs = 0

(* C1: on a started TaskQueue the tasks accepted with delay 0 are executed in
   exactly the order in which they were enqueued: of two executed tasks the
   one enqueued first ran first, and when a task runs every delay-0 task
   accepted before it has run already or was canceled. *)
C1_ExecutionOrder ==
    /\ \A i, j \in DOMAIN executed :
          (i < j /\ AcceptedNow(executed[i]) /\ AcceptedNow(executed[j]))
              => executed[i] < executed[j]
    /\ \A j \in DOMAIN executed : \A s \in 1..(executed[j] - 1) :
          (AcceptedNow(executed[j]) /\ AcceptedNow(s))
              => \/ \E i \in 1..(j - 1) : executed[i] = s
                 \/ state_[s] = "CANCELED"

\* two delay-0 tasks ran while a delayed task was accepted too
C1_Witness ==
    /\ Len(executed) >= 2
    /\ \A i \in DOMAIN executed : AcceptedNow(executed[i])
    /\ \E t \in DOMAIN enq : enq[t].ret = 0 /\ enq[t].delayUs > 0

\* ====================== kernel: sockets and epoll ========================

ListenFd == 0
Fds == 1..MaxConns
AllFds == {ListenFd} \cup Fds
Threads == {"t1", "t2"}

KInit ==
    /\ backlog = 0
    /\ openFds = {}
    /\ epollInterest = [fd \in AllFds |-> {}]
    /\ readyList = {}
    /\ rcvBuf = [fd \in Fds |-> <<>>]
    /\ peerClosed = {}
    /\ sockErr = [fd \in Fds |-> "none"]
    /\ sndSpace = [fd \in Fds |-> SndCap]
    /\ wire = [fd \in Fds |-> <<>>]

\* what poll() reports for a descriptor in the current kernel state
PollState(fd) ==
    IF fd = ListenFd
    THEN IF backlog > 0 THEN {"EPOLLIN"} ELSE {}
    ELSE IF fd \notin openFds THEN {}
    ELSE (IF rcvBuf[fd] # <<>> \/ fd \in peerClosed \/ sockErr[fd] # "none"
              THEN {"EPOLLIN"} ELSE {})
         \cup (IF sndSpace[fd] > 0 THEN {"EPOLLOUT"} ELSE {})
         \cup (IF fd \in peerClosed THEN {"EPOLLRDHUP"} ELSE {})
         \cup (IF sockErr[fd] \notin {"none", "reported"} THEN {"EPOLLERR"} ELSE {})
         \cup (IF sockErr[fd] # "none" THEN {"EPOLLHUP"} ELSE {})

\* epoll reports EPOLLERR and EPOLLHUP whether asked for or not
Reported(mask) == IF mask = {} THEN {} ELSE mask \cup {"EPOLLERR", "EPOLLHUP"}

\* a socket wakeup with the given flags: the descriptor goes on the ready list
\* when its interest mask asks for one of them (ep_poll_callback)
Wake(ready, interest, fd, flags) ==
    IF Reported(interest[fd]) \cap flags # {} THEN ready \cup {fd} ELSE ready

\* EPOLL_CTL_ADD / EPOLL_CTL_MOD poll the descriptor once with the new mask
ReadyAfterCtl(ready, fd, mask, polled) ==
    IF Reported(mask) \cap polled # {} THEN ready \cup {fd} ELSE ready \ {fd}

\* ============================ EventReactor ===============================

\* the EventType -> epoll translation of RegisterHandler and ModifyHandler
ToEpoll(events) ==
    (IF "READ" \in events THEN {"EPOLLIN"} ELSE {})
    \cup (IF "WRITE" \in events THEN {"EPOLLOUT"} ELSE {})
    \cup (IF "ERROR" \in events THEN {"EPOLLERR"} ELSE {})
    \cup (IF "CLOSE" \in events THEN {"EPOLLHUP", "EPOLLRDHUP"} ELSE {})

RInit ==
    /\ handlers_ = {}
    /\ rpc = "idle"
    /\ rfd = 0
    /\ revents = {}
    /\ rev = {}

\* EventReactor::ModifyHandler(fd, events): the new interest list
ModifyInterest(fd, events) ==
    IF fd \in handlers_ /\ epollInterest[fd] # {}
    THEN [epollInterest EXCEPT ![fd] = ToEpoll(events)]
    ELSE epollInterest

\* EventReactor::ModifyHandler(fd, events): the new ready list
ModifyReady(fd, events) ==
    IF fd \in handlers_ /\ epollInterest[fd] # {}
    THEN ReadyAfterCtl(readyList, fd, ToEpoll(events), PollState(fd))
    ELSE readyList

\* where the reactor goes when a handler entry point returns
AfterHandler(remaining) == IF remaining = {} THEN "idle" ELSE "dispatch"

\* ================= TcpServerImpl and TcpConnectionHandler =================

EInit ==
    /\ srvStarted = FALSE
    /\ accepted = 0
    /\ sessions_ = {}
    /\ connectionHandlers_ = {}
    /\ sendQueue_ = [fd \in Fds |-> <<>>]
    /\ writeEventsEnabled_ = [fd \in Fds |-> FALSE]

AInit ==
    /\ apc = [t \in Threads |-> "idle"]
    /\ acall = [t \in Threads |-> 0]
    /\ aev = [t \in Threads |-> {}]
    /\ sends = <<>>

CInit ==
    /\ socket_ = INVALID_SOCKET
    /\ clientHandler_ = FALSE
    /\ cpc = "init"
    /\ closedAt = -1

JInit ==
    /\ jpc = "dead"
    /\ jitem = 0

LInit == life = <<>>

\* ---------------------------------------------------------------- DataBuffer

\* bound: the longest byte sequence passed to a member function
MaxBytes == 9

\* bound: member calls made on the buffer
MaxOps == 3

DATA_ALIGN == 8

\* the value of a byte of a fresh allocation that was never written
Indeterminate == -1

align(len) == ((len + DATA_ALIGN - 1) \div DATA_ALIGN) * DATA_ALIGN

\* new uint8_t[n]
NewBytes(n) == [i \in 1..n |-> Indeterminate]

\* memcpy(d + off, bytes, Len(bytes))
Memcpy(d, off, bytes) ==
    [i \in 1..Len(d) |-> IF off < i /\ i <= off + Len(bytes) THEN bytes[i - off] ELSE d[i]]

\* if (size_ < capacity_) data_[size_] = 0
Terminate(d, size, cap) == IF size < cap THEN [d EXCEPT ![size + 1] = 0] ELSE d

\* the first n bytes of d
Prefix(d, n) == [i \in 1..n |-> d[i]]

\* the lengths and the byte sequences passed in
Lens == {0, 1, DATA_ALIGN, MaxBytes}
ByteSeqs == {[i \in 1..len |-> v] : len \in Lens, v \in {1, 2}}

\* the buffer as a record
ThisBuffer == [data_ |-> data_, size_ |-> size_, capacity_ |-> capacity_]

\* DataBuffer::Assign(const void *p, size_t len) with p the bytes given
Assign(b, bytes) ==
    LET len == Len(bytes) IN
    IF len = 0
    THEN b
    ELSE LET grow == len > b.capacity_
             cap == IF grow THEN align(len) ELSE b.capacity_
             d == Memcpy(IF grow THEN NewBytes(cap) ELSE b.data_, 0, bytes)
         IN [data_ |-> Terminate(d, len, cap), size_ |-> len, capacity_ |-> cap]

\* DataBuffer::Append(const void *p, size_t len)
AppendBytes(b, bytes) ==
    LET len == Len(bytes) IN
    IF len = 0
    THEN b
    ELSE LET fits == len + b.size_ <= b.capacity_
             cap == IF fits THEN b.capacity_ ELSE align(b.size_ + len)
             old == IF fits THEN b.data_
                    ELSE Memcpy(NewBytes(cap), 0, Prefix(b.data_, b.size_))
             d == Memcpy(old, b.size_, bytes)
         IN [data_ |-> Terminate(d, b.size_ + len, cap), size_ |-> b.size_ + len,
             capacity_ |-> cap]

\* DataBuffer::SetSize
SetSize(b, len) ==
    IF len <= b.capacity_
    THEN [b EXCEPT !.size_ = len, !.data_ = Terminate(@, len, b.capacity_)]
    ELSE LET cap == align(len)
             d == Memcpy(NewBytes(cap), 0, Prefix(b.data_, b.size_))
         IN [data_ |-> Terminate(d, len, cap), size_ |-> len, capacity_ |-> cap]

\* DataBuffer::Clear
Clear(b) == [b EXCEPT !.size_ = 0, !.data_ = Terminate(@, 0, b.capacity_)]

RECV_BUFFER_MAX_SIZE == 4096

\* the part of a receive buffer's allocation kept in the model: reads of at most
\* MaxBytes bytes touch no byte behind it
Reach == align(MaxBytes + 1)

Endpoints == {"tcp", "udp"}

\* DataBuffer::DataBuffer(size_t len), len > 0
DataBufferOf(len) ==
    [data_ |-> [NewBytes(align(len)) EXCEPT ![1] = 0], size_ |-> 0, capacity_ |-> align(len)]

\* DataBuffer::DataBuffer(const DataBuffer &other)
DataBufferCopy(other) ==
    IF other.size_ > 0
    THEN LET cap == align(other.size_)
             d == Memcpy(NewBytes(cap), 0, Prefix(other.data_, other.size_))
         IN [data_ |-> Terminate(d, other.size_, cap), size_ |-> other.size_,
             capacity_ |-> cap]
    ELSE [data_ |-> <<>>, size_ |-> 0, capacity_ |-> 0]

\* std::make_unique<DataBuffer>(RECV_BUFFER_MAX_SIZE)
RbInit ==
    /\ readBuffer_ = [e \in Endpoints |->
                         [data_ |-> [NewBytes(Reach) EXCEPT ![1] = 0], size_ |-> 0,
                          capacity_ |-> align(RECV_BUFFER_MAX_SIZE)]]
    /\ made = <<>>
    /\ received = <<>>

\* DataBuffer(): no allocation
DbInit ==
    /\ data_ = <<>>
    /\ size_ = 0
    /\ capacity_ = 0
    /\ nops = 0
    /\ lastOp = [op |-> "DataBuffer", arg |-> <<>>]

\* a connection just accepted
StInit ==
    /\ streamSent = 0
    /\ streamRead = 0

\* bound: AddTask calls in one behaviour
MaxAdds == 3

THREAD_NUM_MAX == 2
THREAD_NUM_PRE_ALLOC == 1

\* the worker threads a pool can have, in creation order
PoolThreads == 1..THREAD_NUM_MAX

\* the serialTag arguments: "" is a normal task
Tags == {"", "a", "b"}
SerialTags == Tags \ {""}

\* ThreadPool::ThreadPool(): preAlloc workers created
TpInit ==
    /\ tasks_ = <<>>
    /\ serialTasks_ = [tag \in SerialTags |-> <<>>]
    /\ runningSerialTags_ = {}
    /\ availableSerialTags_ = <<>>
    /\ tpc = [w \in PoolThreads |-> IF w <= THREAD_NUM_PRE_ALLOC THEN "loop" ELSE "none"]
    /\ ttask = [w \in PoolThreads |-> 0]
    /\ added = <<>>
    /\ ran = <<>>

\* bound: bursts of allocations in one behaviour
MaxBursts == 2

POOL_BLOCK_SIZE == 4096
POOL_GLOBAL_MAX == 1024
POOL_LOCAL_MAX == 32

\* the threads that allocate and free buffers
PoolUsers == {"reactor", "worker"}

\* no buffer allocated yet: both tiers empty
PlInit ==
    /\ t_localPool = [t \in PoolUsers |-> <<>>]
    /\ g_bufferPool = <<>>
    /\ held = <<>>
    /\ nextId = 0
    /\ lastAlloc = [id |-> 0, size_ |-> 0, capacity_ |-> POOL_BLOCK_SIZE, holders |-> 0]
    /\ bpc = "idle"
    /\ bkind = "plain"
    /\ bleft = 0
    /\ brel = "reactor"
    /\ nbursts = 0

\* bound: datagrams the peers send
MaxDatagrams == 3

\* a bound UDP socket with nothing received
UdInit ==
    /\ udpQueue = <<>>
    /\ udpReady = FALSE
    /\ udpc = "idle"
    /\ udpCalls = <<>>
    /\ udpSent = 0

\* the EventReactor singleton before the first GetInstance
ErInit ==
    /\ running_ = FALSE
    /\ epollFd_ = -1
    /\ ctorPc = "none"
    /\ runPc = "none"
    /\ regPc = "none"

\* no Stop call has been made
SpInit ==
    /\ stopPc = "none"
    /\ clientFds = {}

\* bound: Cancel calls of task holders
MaxCancels == 2

\* no Cancel call has been made
CcInit == cancels = <<>>

BInit == DbInit /\ RbInit /\ StInit /\ TpInit /\ PlInit /\ UdInit /\ ErInit /\ SpInit /\ CcInit

Init == TqInit /\ KInit /\ RInit /\ EInit /\ AInit /\ CInit /\ JInit /\ LInit /\ BInit

\* a TaskQueue on its own
SpecTQ == Init /\ [][TqNext]_vars

\* TcpServerHandler::GetEvents
ServerEvents == {"READ", "ERROR", "CLOSE"}

\* TcpConnectionHandler::GetEvents for a value of writeEventsEnabled_
GetEvents(enabled) ==
    {"READ", "ERROR", "CLOSE"} \cup (IF enabled THEN {"WRITE"} ELSE {})

\* TcpServerImpl::Start: taskQueue_->Start() and RegisterHandler(serverHandler_)
SrvStart ==
    /\ ~srvStarted
    /\ srvStarted' = TRUE
    /\ isExit_' = FALSE
    /\ thread_' = TRUE
    /\ wpc' = "wait"
    /\ handlers_' = handlers_ \cup {ListenFd}
    /\ epollInterest' = [epollInterest EXCEPT ![ListenFd] = ToEpoll(ServerEvents)]
    /\ readyList' = ReadyAfterCtl(readyList, ListenFd, ToEpoll(ServerEvents),
                                  PollState(ListenFd))
    /\ UNCHANGED <<taskList_, isTaskExecuting_, state_, witem, ownerPc, clock, enq, executed>>
    /\ UNCHANGED <<backlog, openFds, rcvBuf, peerClosed, sockErr, sndSpace, wire>>
    /\ UNCHANGED <<rpc, rfd, revents, rev>>
    /\ UNCHANGED <<accepted, sessions_, connectionHandlers_, sendQueue_, writeEventsEnabled_>>
    /\ UNCHANGED aVars
    /\ UNCHANGED cVars
    /\ UNCHANGED <<jVars, lVars, bVars>>

\* the task TcpServerImpl hands to its task queue: a listener callback
Callback(kind, fd, data) == [kind |-> kind, fd |-> fd, data |-> data]

\* TcpServerImpl::HandleAccept when accept4 returns descriptor c (backlog > 0):
\* the registration of the connection handler (constructed with
\* writeEventsEnabled_ false), the session and the OnAccept task
HandleAcceptOn(c) ==
    LET mask == ToEpoll(GetEvents(FALSE))
    IN  /\ backlog' = backlog - 1
        /\ accepted' = accepted + 1
        /\ openFds' = openFds \cup {c}
        /\ epollInterest' = [epollInterest EXCEPT ![c] = mask]
        /\ readyList' = readyList
        /\ handlers_' = handlers_ \cup {c}
        /\ connectionHandlers_' = connectionHandlers_ \cup {c}
        /\ sessions_' = sessions_ \cup {c}
        /\ EnqueueTask(Callback("OnAccept", c, 0), FALSE, 0)
        /\ UNCHANGED <<isExit_, thread_, isTaskExecuting_, wpc, witem, ownerPc,
                       clock, executed>>

\* TcpServerImpl::HandleAccept: one accept4 call; every connection gets a
\* descriptor number of its own
HandleAccept ==
    IF backlog = 0
    THEN UNCHANGED <<tqVars, backlog, openFds, epollInterest, readyList, handlers_,
                     accepted, sessions_, connectionHandlers_>>
    ELSE HandleAcceptOn(accepted + 1)

\* a teardown that forgets that the session is already gone
SessionGone_never(fd) == FALSE

\* HandleConnectionClose: sessions_.find(fd) == sessions_.end(), the connection
\* was cleaned up before
SessionGone(fd) == fd \notin sessions_

\* TcpServerImpl::HandleConnectionClose(fd, isError, reason)
HandleConnectionClose(fd, isError) ==
    IF SessionGone(fd)
    THEN UNCHANGED <<tqVars, openFds, epollInterest, readyList, handlers_,
                     sessions_, connectionHandlers_>>
    ELSE /\ handlers_' = handlers_ \ {fd}
         /\ epollInterest' = [epollInterest EXCEPT ![fd] = {}]
         /\ readyList' = readyList \ {fd}
         /\ openFds' = openFds \ {fd}
         /\ sessions_' = sessions_ \ {fd}
         /\ connectionHandlers_' = connectionHandlers_ \ {fd}
         /\ EnqueueTask(Callback(IF isError THEN "OnError" ELSE "OnClose", fd, 0), FALSE, 0)
         /\ UNCHANGED <<isExit_, thread_, isTaskExecuting_, wpc, witem, ownerPc,
                        clock, executed>>

\* ---- the reactor thread: EventReactor::Run and DispatchEvent ----

\* Run: epoll_wait returns one ready descriptor; the handler is looked up
EpollWait ==
    /\ rpc = "idle"
    /\ \E fd \in readyList :
          LET ev == PollState(fd) \cap Reported(epollInterest[fd])
          IN  /\ readyList' = readyList \ {fd}
              /\ IF fd \in handlers_ /\ ev # {}
                 THEN /\ rpc' = "dispatch"
                      /\ rfd' = fd
                      /\ revents' = ev
                 ELSE UNCHANGED <<rpc, rfd, revents>>
    /\ UNCHANGED <<tqVars, handlers_, rev, eVars, aVars>>
    /\ UNCHANGED <<backlog, openFds, epollInterest, rcvBuf, peerClosed, sockErr, sndSpace, wire>>
    /\ UNCHANGED cVars
    /\ UNCHANGED <<jVars, lVars, bVars>>

\* DispatchEvent: events & EPOLLIN -> handler->HandleRead(fd)
DispatchRead ==
    /\ rpc = "dispatch"
    /\ "EPOLLIN" \in revents
    /\ revents' = revents \ {"EPOLLIN"}
    /\ IF rfd = ListenFd
       THEN /\ HandleAccept
            /\ rpc' = AfterHandler(revents')
       ELSE /\ rpc' = "recv"
            /\ UNCHANGED <<tqVars, backlog, openFds, epollInterest, readyList, handlers_,
                           accepted, sessions_, connectionHandlers_>>
    /\ UNCHANGED <<rfd, rev, srvStarted, sendQueue_, writeEventsEnabled_, aVars>>
    /\ UNCHANGED <<rcvBuf, peerClosed, sockErr, sndSpace, wire>>
    /\ UNCHANGED cVars
    /\ UNCHANGED <<jVars, lVars, bVars>>

\* what recv(fd, ..., MSG_DONTWAIT) returns in the current kernel state
RecvOutcome(fd) ==
    IF fd \notin openFds THEN "EBADF"
    ELSE IF rcvBuf[fd] # <<>> THEN "data"
    ELSE IF sockErr[fd] \notin {"none", "reported"} THEN sockErr[fd]
    ELSE IF fd \in peerClosed \/ sockErr[fd] = "reported" THEN "zero"
    ELSE "EAGAIN"

\* recv that reports the pending socket error clears it; the socket stays shut down
AfterRecv(fd) ==
    IF fd \in openFds /\ rcvBuf[fd] = <<>> /\ sockErr[fd] \notin {"none", "reported"}
    THEN [sockErr EXCEPT ![fd] = "reported"]
    ELSE sockErr

\* TcpServerImpl::HandleReceive: the results of recv that lead to
\* HandleConnectionClose(fd, true, info)
RecvCloses_zero(outcome) == outcome \notin {"data", "EAGAIN", "ETIMEDOUT"}

RecvCloses(outcome) == outcome \notin {"data", "zero", "EAGAIN", "ETIMEDOUT"}

\* TcpServerImpl::HandleReceive: one iteration of the recv loop
HandleReceive ==
    /\ rpc = "recv"
    /\ IF RecvOutcome(rfd) = "data"
       THEN \* nbytes > 0: the OnReceive task, then continue
            /\ rcvBuf' = [rcvBuf EXCEPT ![rfd] = Tail(@)]
            /\ IF rfd \in sessions_
               THEN /\ EnqueueTask(Callback("OnReceive", rfd, Head(rcvBuf[rfd])), FALSE, 0)
                    /\ UNCHANGED <<isExit_, thread_, isTaskExecuting_, wpc, witem, ownerPc,
                                   clock, executed>>
               ELSE UNCHANGED tqVars
            /\ UNCHANGED <<rpc, openFds, epollInterest, readyList, handlers_,
                           sessions_, connectionHandlers_>>
       ELSE IF RecvCloses(RecvOutcome(rfd))
       THEN \* an errno other than EAGAIN and ETIMEDOUT
            /\ HandleConnectionClose(rfd, TRUE)
            /\ rpc' = AfterHandler(revents)
            /\ UNCHANGED rcvBuf
       ELSE \* nbytes = 0, EAGAIN or ETIMEDOUT: break
            /\ rpc' = AfterHandler(revents)
            /\ UNCHANGED <<tqVars, rcvBuf, openFds, epollInterest, readyList, handlers_,
                           sessions_, connectionHandlers_>>
    /\ sockErr' = AfterRecv(rfd)
    /\ UNCHANGED <<rfd, revents, rev, srvStarted, accepted, sendQueue_, writeEventsEnabled_, aVars>>
    /\ UNCHANGED <<backlog, peerClosed, sndSpace, wire>>
    /\ UNCHANGED cVars
    /\ UNCHANGED <<jVars, lVars, bVars>>

\* DispatchEvent: events & EPOLLOUT -> handler->HandleWrite(fd)
DispatchWrite ==
    /\ rpc = "dispatch"
    /\ "EPOLLIN" \notin revents
    /\ "EPOLLOUT" \in revents
    /\ revents' = revents \ {"EPOLLOUT"}
    /\ rpc' = IF rfd = ListenFd THEN AfterHandler(revents') ELSE "psq_loop"
    /\ UNCHANGED <<tqVars, kVars, handlers_, rfd, rev, eVars, aVars>>
    /\ UNCHANGED cVars
    /\ UNCHANGED <<jVars, lVars, bVars>>

\* the unsent tail a partial write leaves
Remaining_whole(buf, bytesSent) == buf

Remaining(buf, bytesSent) == SubSeq(buf, bytesSent + 1, Len(buf))

\* the send queue after send() took bytesSent bytes of the front buffer
AfterSend_requeue(queue, bytesSent) ==
    IF bytesSent = Len(Head(queue))
    THEN Tail(queue)
    ELSE Tail(queue) \o <<Remaining(Head(queue), bytesSent)>>

AfterSend(queue, bytesSent) ==
    IF bytesSent = Len(Head(queue))
    THEN Tail(queue)
    ELSE <<Remaining(Head(queue), bytesSent)>> \o Tail(queue)

\* TcpConnectionHandler::ProcessSendQueue: the loop test and one send() call
ProcessSendQueueSend ==
    /\ rpc = "psq_loop"
    /\ IF sendQueue_[rfd] = <<>>
       THEN /\ rpc' = "psq_final"
            /\ UNCHANGED <<sendQueue_, sndSpace, wire>>
       ELSE IF rfd \notin openFds \/ sockErr[rfd] # "none"
       THEN \* send error other than EAGAIN: log and return
            /\ rpc' = AfterHandler(revents)
            /\ UNCHANGED <<sendQueue_, sndSpace, wire>>
       ELSE IF sndSpace[rfd] = 0
       THEN \* EAGAIN: break
            /\ rpc' = "psq_final"
            /\ UNCHANGED <<sendQueue_, sndSpace, wire>>
       ELSE LET buf == Head(sendQueue_[rfd])
                bytesSent == Min(sndSpace[rfd], Len(buf))
            IN  /\ wire' = [wire EXCEPT ![rfd] = @ \o SubSeq(buf, 1, bytesSent)]
                /\ sndSpace' = [sndSpace EXCEPT ![rfd] = @ - bytesSent]
                /\ sendQueue_' = [sendQueue_ EXCEPT ![rfd] = AfterSend(@, bytesSent)]
                /\ rpc' = IF bytesSent = Len(buf) THEN "psq_loop" ELSE "psq_final"
    /\ UNCHANGED <<tqVars, handlers_, rfd, revents, rev, aVars>>
    /\ UNCHANGED <<srvStarted, accepted, sessions_, connectionHandlers_, writeEventsEnabled_>>
    /\ UNCHANGED <<backlog, openFds, epollInterest, readyList, rcvBuf, peerClosed, sockErr>>
    /\ UNCHANGED cVars
    /\ UNCHANGED <<jVars, lVars, bVars>>

\* ProcessSendQueue: if (sendQueue_.empty()) after the loop
ProcessSendQueueFinal ==
    /\ rpc = "psq_final"
    /\ rpc' = IF sendQueue_[rfd] = <<>> THEN "psq_dis" ELSE AfterHandler(revents)
    /\ UNCHANGED <<tqVars, kVars, handlers_, rfd, revents, rev, eVars, aVars>>
    /\ UNCHANGED cVars
    /\ UNCHANGED <<jVars, lVars, bVars>>

\* TcpConnectionHandler::DisableWriteEvents up to the ModifyHandler call
DisableWriteEvents ==
    /\ rpc = "psq_dis"
    /\ IF writeEventsEnabled_[rfd]
       THEN /\ writeEventsEnabled_' = [writeEventsEnabled_ EXCEPT ![rfd] = FALSE]
            /\ rev' = GetEvents(FALSE)
            /\ rpc' = "psq_mod"
       ELSE /\ rpc' = AfterHandler(revents)
            /\ UNCHANGED <<writeEventsEnabled_, rev>>
    /\ UNCHANGED <<tqVars, kVars, handlers_, rfd, revents, aVars>>
    /\ UNCHANGED <<srvStarted, accepted, sessions_, connectionHandlers_, sendQueue_>>
    /\ UNCHANGED cVars
    /\ UNCHANGED <<jVars, lVars, bVars>>

\* DisableWriteEvents: EventReactor::ModifyHandler(fd_, GetEvents())
DisableModify ==
    /\ rpc = "psq_mod"
    /\ epollInterest' = ModifyInterest(rfd, rev)
    /\ readyList' = ModifyReady(rfd, rev)
    /\ rpc' = AfterHandler(revents)
    /\ UNCHANGED <<tqVars, handlers_, rfd, revents, rev, eVars, aVars>>
    /\ UNCHANGED <<backlog, openFds, rcvBuf, peerClosed, sockErr, sndSpace, wire>>
    /\ UNCHANGED cVars
    /\ UNCHANGED <<jVars, lVars, bVars>>

\* DispatchEvent: events & EPOLLERR -> handler->HandleError(fd)
DispatchError ==
    /\ rpc = "dispatch"
    /\ revents \cap {"EPOLLIN", "EPOLLOUT"} = {}
    /\ "EPOLLERR" \in revents
    /\ revents' = revents \ {"EPOLLERR"}
    /\ rpc' = AfterHandler(revents')
    /\ IF rfd = ListenFd
       THEN UNCHANGED <<tqVars, openFds, epollInterest, readyList, handlers_,
                        sessions_, connectionHandlers_>>
       ELSE HandleConnectionClose(rfd, TRUE)
    /\ UNCHANGED <<rfd, rev, srvStarted, accepted, sendQueue_, writeEventsEnabled_, aVars>>
    /\ UNCHANGED <<backlog, rcvBuf, peerClosed, sockErr, sndSpace, wire>>
    /\ UNCHANGED cVars
    /\ UNCHANGED <<jVars, lVars, bVars>>

\* DispatchEvent: events & (EPOLLHUP | EPOLLRDHUP) -> handler->HandleClose(fd)
DispatchClose ==
    /\ rpc = "dispatch"
    /\ revents \cap {"EPOLLIN", "EPOLLOUT", "EPOLLERR"} = {}
    /\ revents \cap {"EPOLLHUP", "EPOLLRDHUP"} # {}
    /\ revents' = {}
    /\ rpc' = "idle"
    /\ IF rfd = ListenFd
       THEN UNCHANGED <<tqVars, openFds, epollInterest, readyList, handlers_,
                        sessions_, connectionHandlers_>>
       ELSE HandleConnectionClose(rfd, FALSE)
    /\ UNCHANGED <<rfd, rev, srvStarted, accepted, sendQueue_, writeEventsEnabled_, aVars>>
    /\ UNCHANGED <<backlog, rcvBuf, peerClosed, sockErr, sndSpace, wire>>
    /\ UNCHANGED cVars
    /\ UNCHANGED <<jVars, lVars, bVars>>

\* ---- threads calling Send: TcpServerImpl::Send via SessionImpl::Send ----

\* std::shared_ptr<DataBuffer>: a null pointer, or a buffer holding data
Buffer(data) == [null |-> FALSE, data |-> data]
Null == [null |-> TRUE, data |-> <<>>]

\* the payloads a caller passes in its n-th Send: null, empty, or 1..MaxLen bytes
Payloads(n) ==
    {Null} \cup {Buffer([i \in 1..len |-> n * 10 + i]) : len \in 0..MaxLen}

\* TcpServerImpl::Send: if (!buffer || buffer->Size() == 0) return false
SendRejects_nullonly(buf) == buf.null

SendRejects(buf) == buf.null \/ Len(buf.data) = 0

\* TcpConnectionHandler::QueueSend: if (!buffer || buffer->Size() == 0) return
QueueSendRejects(buf) == buf.null \/ Len(buf.data) = 0

SetRet(call, ret) == [sends EXCEPT ![call].ret = ret]

\* TcpServerImpl::Send(fd, host, port, buffer) up to the QueueSend call
SendCall(t) ==
    /\ apc[t] = "idle"
    /\ Len(sends) < MaxSends
    /\ \E fd \in 1..accepted, buf \in Payloads(Len(sends) + 1) :
          LET fails == SendRejects(buf) \/ fd \notin sessions_
                       \/ fd \notin connectionHandlers_
          IN  /\ sends' = Append(sends, [thr |-> t, fd |-> fd, buf |-> buf,
                                         ret |-> IF fails THEN "false" ELSE "pending"])
              /\ apc' = [apc EXCEPT ![t] = IF fails THEN "idle" ELSE "queue"]
              /\ acall' = [acall EXCEPT ![t] = Len(sends) + 1]
    /\ UNCHANGED <<tqVars, kVars, rVars, eVars, aev>>
    /\ UNCHANGED cVars
    /\ UNCHANGED <<jVars, lVars, bVars>>

\* TcpConnectionHandler::QueueSend: the checks and sendQueue_.push(buffer)
QueueSend(t) ==
    /\ apc[t] = "queue"
    /\ LET call == sends[acall[t]]
       IN  IF QueueSendRejects(call.buf)
           THEN /\ apc' = [apc EXCEPT ![t] = "idle"]
                /\ sends' = SetRet(acall[t], "true")
                /\ UNCHANGED sendQueue_
           ELSE /\ sendQueue_' = [sendQueue_ EXCEPT ![call.fd] = Append(@, call.buf.data)]
                /\ apc' = [apc EXCEPT ![t] = "enable"]
                /\ UNCHANGED sends
    /\ UNCHANGED <<tqVars, kVars, rVars, acall, aev>>
    /\ UNCHANGED <<srvStarted, accepted, sessions_, connectionHandlers_, writeEventsEnabled_>>
    /\ UNCHANGED cVars
    /\ UNCHANGED <<jVars, lVars, bVars>>

\* TcpConnectionHandler::EnableWriteEvents up to the ModifyHandler call
EnableWriteEvents(t) ==
    /\ apc[t] = "enable"
    /\ LET fd == sends[acall[t]].fd
       IN  IF ~writeEventsEnabled_[fd]
           THEN /\ writeEventsEnabled_' = [writeEventsEnabled_ EXCEPT ![fd] = TRUE]
                /\ aev' = [aev EXCEPT ![t] = GetEvents(TRUE)]
                /\ apc' = [apc EXCEPT ![t] = "modify"]
                /\ UNCHANGED sends
           ELSE /\ apc' = [apc EXCEPT ![t] = "idle"]
                /\ sends' = SetRet(acall[t], "true")
                /\ UNCHANGED <<writeEventsEnabled_, aev>>
    /\ UNCHANGED <<tqVars, kVars, rVars, acall>>
    /\ UNCHANGED <<srvStarted, accepted, sessions_, connectionHandlers_, sendQueue_>>
    /\ UNCHANGED cVars
    /\ UNCHANGED <<jVars, lVars, bVars>>

\* EnableWriteEvents: EventReactor::ModifyHandler(fd_, GetEvents()); Send returns true
EnableModify(t) ==
    /\ apc[t] = "modify"
    /\ LET fd == sends[acall[t]].fd
       IN  /\ epollInterest' = ModifyInterest(fd, aev[t])
           /\ readyList' = ModifyReady(fd, aev[t])
    /\ apc' = [apc EXCEPT ![t] = "idle"]
    /\ sends' = SetRet(acall[t], "true")
    /\ UNCHANGED <<tqVars, rVars, eVars, acall, aev>>
    /\ UNCHANGED <<backlog, openFds, rcvBuf, peerClosed, sockErr, sndSpace, wire>>
    /\ UNCHANGED cVars
    /\ UNCHANGED <<jVars, lVars, bVars>>

\* ---- the peers and the network ----

\* a peer connects: the connection enters the listen queue
PeerConnect ==
    /\ backlog + accepted < MaxConns
    /\ backlog' = backlog + 1
    /\ readyList' = Wake(readyList, epollInterest, ListenFd, {"EPOLLIN"})
    /\ UNCHANGED <<tqVars, rVars, eVars, aVars>>
    /\ UNCHANGED <<openFds, epollInterest, rcvBuf, peerClosed, sockErr, sndSpace, wire>>
    /\ UNCHANGED cVars
    /\ UNCHANGED <<jVars, lVars, bVars>>

\* the peer's n-th chunk on connection fd
Chunk(fd, n) == fd * 10 + n

\* a peer sends a chunk of data
PeerSend ==
    /\ \E fd \in openFds :
          /\ fd \notin peerClosed
          /\ sockErr[fd] = "none"
          /\ \E n \in 1..MaxChunks :
                /\ n = 1 + Cardinality({i \in DOMAIN enq : enq[i].cb.kind = "OnReceive"
                                                          /\ enq[i].cb.fd = fd})
                          + Len(rcvBuf[fd])
                /\ rcvBuf' = [rcvBuf EXCEPT ![fd] = Append(@, Chunk(fd, n))]
          /\ readyList' = Wake(readyList, epollInterest, fd, {"EPOLLIN"})
    /\ UNCHANGED <<tqVars, rVars, eVars, aVars>>
    /\ UNCHANGED <<backlog, openFds, epollInterest, peerClosed, sockErr, sndSpace, wire>>
    /\ UNCHANGED cVars
    /\ UNCHANGED <<jVars, lVars, bVars>>

\* a peer closes its end: FIN arrives
PeerClose ==
    /\ \E fd \in openFds :
          /\ fd \notin peerClosed
          /\ sockErr[fd] = "none"
          /\ peerClosed' = peerClosed \cup {fd}
          /\ readyList' = Wake(readyList, epollInterest, fd, {"EPOLLIN", "EPOLLRDHUP"})
    /\ UNCHANGED <<tqVars, rVars, eVars, aVars>>
    /\ UNCHANGED <<backlog, openFds, epollInterest, rcvBuf, sockErr, sndSpace, wire>>
    /\ UNCHANGED cVars
    /\ UNCHANGED <<jVars, lVars, bVars>>

\* a peer resets the connection: RST arrives, the receive queue is purged
PeerReset ==
    /\ \E fd \in openFds :
          /\ sockErr[fd] = "none"
          /\ sockErr' = [sockErr EXCEPT ![fd] = "ECONNRESET"]
          /\ rcvBuf' = [rcvBuf EXCEPT ![fd] = <<>>]
          /\ readyList' = Wake(readyList, epollInterest, fd,
                               {"EPOLLIN", "EPOLLERR", "EPOLLHUP"})
    /\ UNCHANGED <<tqVars, rVars, eVars, aVars>>
    /\ UNCHANGED <<backlog, openFds, epollInterest, peerClosed, sndSpace, wire>>
    /\ UNCHANGED cVars
    /\ UNCHANGED <<jVars, lVars, bVars>>

\* the connection times out (keepalive or retransmission): the socket is shut
\* down with ETIMEDOUT pending
PeerTimeout ==
    /\ \E fd \in openFds :
          /\ sockErr[fd] = "none"
          /\ sockErr' = [sockErr EXCEPT ![fd] = "ETIMEDOUT"]
          /\ readyList' = Wake(readyList, epollInterest, fd,
                               {"EPOLLIN", "EPOLLERR", "EPOLLHUP"})
    /\ UNCHANGED <<tqVars, rVars, eVars, aVars, cVars>>
    /\ UNCHANGED <<backlog, openFds, epollInterest, rcvBuf, peerClosed, sndSpace, wire>>
    /\ UNCHANGED <<jVars, lVars, bVars>>

\* the peer acknowledges data: send-buffer space is freed; a socket whose buffer
\* was full wakes its writers
Drain ==
    /\ \E fd \in openFds :
          /\ sndSpace[fd] < SndCap
          /\ \E k \in 1..(SndCap - sndSpace[fd]) :
                sndSpace' = [sndSpace EXCEPT ![fd] = @ + k]
          /\ readyList' = IF sndSpace[fd] = 0
                          THEN Wake(readyList, epollInterest, fd, {"EPOLLOUT"})
                          ELSE readyList
    /\ UNCHANGED <<tqVars, rVars, eVars, aVars>>
    /\ UNCHANGED <<backlog, openFds, epollInterest, rcvBuf, peerClosed, sockErr, wire>>
    /\ UNCHANGED cVars
    /\ UNCHANGED <<jVars, lVars, bVars>>

\* ---- the send path of one accepted connection ----

\* the first and only connection of this specification
FirstConnect == backlog + accepted = 0 /\ PeerConnect

Reactor ==
    \/ EpollWait
    \/ DispatchRead
    \/ HandleReceive
    \/ DispatchWrite
    \/ ProcessSendQueueSend
    \/ ProcessSendQueueFinal
    \/ DisableWriteEvents
    \/ DisableModify
    \/ DispatchError
    \/ DispatchClose

Next ==
    \/ SrvStart
    \/ FirstConnect
    \/ Reactor
    \/ \E t \in Threads : SendCall(t)
    \/ \E t \in Threads : QueueSend(t)
    \/ \E t \in Threads : EnableWriteEvents(t)
    \/ \E t \in Threads : EnableModify(t)
    \/ Drain
    \/ PeerReset

Spec == Init /\ [][Next]_vars

\* ---- a server that accepts, receives and tears down connections ----

ReactorRecv ==
    \/ EpollWait
    \/ DispatchRead
    \/ HandleReceive
    \/ DispatchError
    \/ DispatchClose

\* the server's task queue worker while the server runs
Worker == TaskProcessorTake \/ TaskProcessorExecute \/ TaskProcessorDone

NextRecv ==
    \/ SrvStart
    \/ PeerConnect
    \/ PeerSend
    \/ PeerClose
    \/ PeerReset
    \/ ReactorRecv
    \/ Worker

SpecRecv == Init /\ [][NextRecv]_vars

\* ---- a server whose entry points may throw ----

\* TcpServerImpl::HandleReceive: recv has returned a chunk and
\* std::make_shared<DataBuffer>(nbytes) throws std::bad_alloc; the exception
\* leaves HandleRead and reaches the catch clause of DispatchEvent
HandleReceiveThrows ==
    /\ rpc = "recv"
    /\ RecvOutcome(rfd) = "data"
    /\ rcvBuf' = [rcvBuf EXCEPT ![rfd] = Tail(@)]
    /\ rpc' = "caught"
    /\ UNCHANGED <<tqVars, handlers_, rfd, revents, rev, eVars, aVars, cVars, jVars, lVars, bVars>>
    /\ UNCHANGED <<backlog, openFds, epollInterest, readyList, peerClosed, sockErr,
                   sndSpace, wire>>

\* where the reactor thread is after the catch clause of DispatchEvent: back
\* in the loops of Run
AfterCatch_exit == "exited"

AfterCatch == "idle"

\* DispatchEvent: the catch clause logs and DispatchEvent returns
DispatchCatch ==
    /\ rpc = "caught"
    /\ rpc' = AfterCatch
    /\ revents' = {}
    /\ UNCHANGED <<tqVars, kVars, handlers_, rfd, rev, eVars, aVars, cVars, jVars, lVars, bVars>>

NextDispatch ==
    \/ SrvStart
    \/ PeerConnect
    \/ PeerSend
    \/ PeerClose
    \/ PeerReset
    \/ ReactorRecv
    \/ HandleReceiveThrows
    \/ DispatchCatch

SpecDispatch == Init /\ [][NextDispatch]_vars

\* ============================ TcpClientImpl ==============================

\* the descriptor socket() returns to the client
ClientFd == 1

\* TcpClientImpl::Init and Connect: socket(), connect(), taskQueue_->Start(),
\* RegisterHandler(clientHandler_)
ClientConnect ==
    /\ cpc = "init"
    /\ cpc' = "connected"
    /\ socket_' = ClientFd
    /\ clientHandler_' = TRUE
    /\ openFds' = openFds \cup {ClientFd}
    /\ isExit_' = FALSE
    /\ thread_' = TRUE
    /\ wpc' = "wait"
    /\ handlers_' = handlers_ \cup {ClientFd}
    /\ epollInterest' = [epollInterest EXCEPT ![ClientFd] = ToEpoll(GetEvents(FALSE))]
    /\ readyList' = ReadyAfterCtl(readyList, ClientFd, ToEpoll(GetEvents(FALSE)),
                                  PollState(ClientFd))
    /\ UNCHANGED <<taskList_, isTaskExecuting_, state_, witem, ownerPc, clock, enq, executed>>
    /\ UNCHANGED <<backlog, rcvBuf, peerClosed, sockErr, sndSpace, wire>>
    /\ UNCHANGED <<rpc, rfd, revents, rev, eVars, aVars, closedAt>>
    /\ UNCHANGED <<jVars, lVars, bVars>>

\* TcpClientImpl::HandleConnectionClose(fd, isError, reason)
ClientHandleConnectionClose(fd, isError) ==
    IF socket_ # fd
    THEN UNCHANGED <<tqVars, openFds, epollInterest, readyList, handlers_,
                     socket_, clientHandler_>>
    ELSE /\ handlers_' = handlers_ \ {fd}
         /\ epollInterest' = [epollInterest EXCEPT ![fd] = {}]
         /\ readyList' = readyList \ {fd}
         /\ openFds' = openFds \ {fd}
         /\ socket_' = INVALID_SOCKET
         /\ clientHandler_' = FALSE
         /\ EnqueueTask(Callback(IF isError THEN "OnError" ELSE "OnClose", fd, 0), FALSE, 0)
         /\ UNCHANGED <<isExit_, thread_, isTaskExecuting_, wpc, witem, ownerPc,
                        clock, executed>>

\* TcpClientImpl::HandleReceive: the results of recv that lead to
\* HandleConnectionClose(fd, true, info)
ClientRecvCloses(outcome) == outcome \notin {"data", "zero", "EAGAIN"}

\* TcpClientImpl::HandleReceive: one iteration of the recv loop
ClientHandleReceive ==
    /\ rpc = "recv"
    /\ IF RecvOutcome(rfd) = "data"
       THEN /\ rcvBuf' = [rcvBuf EXCEPT ![rfd] = Tail(@)]
            /\ EnqueueTask(Callback("OnReceive", rfd, Head(rcvBuf[rfd])), FALSE, 0)
            /\ UNCHANGED <<isExit_, thread_, isTaskExecuting_, wpc, witem, ownerPc,
                           clock, executed>>
            /\ UNCHANGED <<rpc, openFds, epollInterest, readyList, handlers_,
                           socket_, clientHandler_>>
       ELSE IF ClientRecvCloses(RecvOutcome(rfd))
       THEN /\ ClientHandleConnectionClose(rfd, TRUE)
            /\ rpc' = AfterHandler(revents)
            /\ UNCHANGED rcvBuf
       ELSE /\ rpc' = AfterHandler(revents)
            /\ UNCHANGED <<tqVars, rcvBuf, openFds, epollInterest, readyList, handlers_,
                           socket_, clientHandler_>>
    /\ UNCHANGED <<rfd, revents, rev, eVars, aVars, cpc, closedAt>>
    /\ UNCHANGED <<backlog, peerClosed, sockErr, sndSpace, wire>>
    /\ UNCHANGED <<jVars, lVars, bVars>>

\* DispatchEvent: events & EPOLLERR -> TcpClientHandler::HandleError
ClientDispatchError ==
    /\ rpc = "dispatch"
    /\ revents \cap {"EPOLLIN", "EPOLLOUT"} = {}
    /\ "EPOLLERR" \in revents
    /\ revents' = revents \ {"EPOLLERR"}
    /\ rpc' = AfterHandler(revents')
    /\ ClientHandleConnectionClose(rfd, TRUE)
    /\ UNCHANGED <<rfd, rev, eVars, aVars, cpc, closedAt>>
    /\ UNCHANGED <<backlog, rcvBuf, peerClosed, sockErr, sndSpace, wire>>
    /\ UNCHANGED <<jVars, lVars, bVars>>

\* DispatchEvent: events & (EPOLLHUP | EPOLLRDHUP) -> TcpClientHandler::HandleClose
ClientDispatchClose ==
    /\ rpc = "dispatch"
    /\ revents \cap {"EPOLLIN", "EPOLLOUT", "EPOLLERR"} = {}
    /\ revents \cap {"EPOLLHUP", "EPOLLRDHUP"} # {}
    /\ revents' = {}
    /\ rpc' = "idle"
    /\ ClientHandleConnectionClose(rfd, FALSE)
    /\ UNCHANGED <<rfd, rev, eVars, aVars, cpc, closedAt>>
    /\ UNCHANGED <<backlog, rcvBuf, peerClosed, sockErr, sndSpace, wire>>
    /\ UNCHANGED <<jVars, lVars, bVars>>

\* TcpClientImpl::Close: the test and EventReactor::RemoveHandler(socket_)
CloseRemove ==
    /\ cpc = "connected"
    /\ IF socket_ # INVALID_SOCKET /\ clientHandler_
       THEN /\ cpc' = "closing"
            /\ handlers_' = handlers_ \ {socket_}
            /\ epollInterest' = IF socket_ \in handlers_
                                THEN [epollInterest EXCEPT ![socket_] = {}]
                                ELSE epollInterest
            /\ readyList' = IF socket_ \in handlers_ THEN readyList \ {socket_}
                            ELSE readyList
            /\ UNCHANGED closedAt
       ELSE \* nothing to close: Close returns at once
            /\ cpc' = "noop"
            /\ closedAt' = Len(executed)
            /\ UNCHANGED <<handlers_, epollInterest, readyList>>
    /\ UNCHANGED <<tqVars, rpc, rfd, revents, rev, eVars, aVars, socket_, clientHandler_>>
    /\ UNCHANGED <<backlog, openFds, rcvBuf, peerClosed, sockErr, sndSpace, wire>>
    /\ UNCHANGED <<jVars, lVars, bVars>>

\* TcpClientImpl::Close: close(socket_), socket_ = INVALID_SOCKET,
\* clientHandler_.reset(); Close returns
CloseFinish ==
    /\ cpc = "closing"
    /\ cpc' = "closed"
    /\ openFds' = openFds \ {socket_}
    /\ epollInterest' = IF socket_ \in Fds THEN [epollInterest EXCEPT ![socket_] = {}]
                        ELSE epollInterest
    /\ readyList' = readyList \ {socket_}
    /\ socket_' = INVALID_SOCKET
    /\ clientHandler_' = FALSE
    /\ closedAt' = Len(executed)
    /\ UNCHANGED <<tqVars, rVars, eVars, aVars>>
    /\ UNCHANGED <<backlog, rcvBuf, peerClosed, sockErr, sndSpace, wire>>
    /\ UNCHANGED <<jVars, lVars, bVars>>

NextClient ==
    \/ ClientConnect
    \/ PeerSend
    \/ PeerClose
    \/ PeerReset
    \/ EpollWait
    \/ DispatchRead
    \/ ClientHandleReceive
    \/ ClientDispatchError
    \/ ClientDispatchClose
    \/ CloseRemove
    \/ CloseFinish
    \/ Worker

SpecClient == Init /\ [][NextClient]_vars

\* ---- a TaskQueue whose owner repeats Start and Stop ----

MaxLife == 4

\* TaskQueue::Start: thread_ != nullptr
StartedAlready_never == FALSE

StartedAlready == thread_

\* TaskQueue::Stop: isExit_
StoppedAlready == isExit_

\* TaskQueue::Start, with its return value recorded
StartCall ==
    /\ ownerPc = "idle"
    /\ Len(life) < MaxLife
    /\ IF StartedAlready
       THEN UNCHANGED <<isExit_, thread_, wpc>>
       ELSE /\ isExit_' = FALSE
            /\ thread_' = TRUE
            /\ wpc' = "wait"
    /\ life' = Append(life, [op |-> "Start", ret |-> 0])
    /\ UNCHANGED <<taskList_, isTaskExecuting_, state_, witem, ownerPc, clock, enq, executed>>
    /\ UNCHANGED <<kVars, rVars, eVars, aVars, cVars, jVars, bVars>>

\* TaskQueue::Stop up to t->join(), or to its return when the queue is stopped
StopCallBegin ==
    /\ ownerPc = "idle"
    /\ Len(life) < MaxLife
    /\ IF StoppedAlready
       THEN /\ life' = Append(life, [op |-> "Stop", ret |-> 0])
            /\ UNCHANGED <<isExit_, thread_, ownerPc>>
       ELSE /\ isExit_' = TRUE
            /\ thread_' = FALSE
            /\ ownerPc' = "joining"
            /\ UNCHANGED life
    /\ UNCHANGED <<taskList_, isTaskExecuting_, state_, wpc, witem, clock, enq, executed>>
    /\ UNCHANGED <<kVars, rVars, eVars, aVars, cVars, jVars, bVars>>

\* TaskQueue::Stop after the join: CancelNotExecutedTaskLocked, return 0
StopCallEnd ==
    /\ ownerPc = "joining"
    /\ wpc = "dead"
    /\ ownerPc' = "idle"
    /\ state_' = CancelAll(taskList_, state_)
    /\ taskList_' = <<>>
    /\ life' = Append(life, [op |-> "Stop", ret |-> 0])
    /\ UNCHANGED <<isExit_, thread_, isTaskExecuting_, wpc, witem, clock, enq, executed>>
    /\ UNCHANGED <<kVars, rVars, eVars, aVars, cVars, jVars, bVars>>

NextTQLife ==
    \/ StartCall
    \/ StopCallBegin
    \/ StopCallEnd
    \/ TqEnqueue
    \/ Tick
    \/ TqWorker

SpecTQLife == Init /\ [][NextTQLife]_vars

\* ---- a TaskQueue with periodic tasks and tasks whose function throws ----

\* the interval of a task that is not periodic: 2^64 - 1, which periodicTimeUs_
\* is only tested for equality with
UINT64_MAX == -1

\* the intervals tasks are constructed with, in microseconds
Intervals == {UINT64_MAX, 1}

\* item.task_->GetAttribute().periodicTimeUs_
PeriodicTimeUs(t) == enq[t].cb.periodicTimeUs_

\* the tail of the worker's loop for the task t it popped, with the tasks'
\* states st: a periodic task goes through EnqueueTask(task, false, interval)
LoopTail(t, st) ==
    LET interval == PeriodicTimeUs(t)
        executeTimeNs == interval * US_TO_NS + clock
    IN  /\ isTaskExecuting_' = FALSE
        /\ IF interval = UINT64_MAX
           THEN /\ state_' = st
                /\ UNCHANGED taskList_
           ELSE /\ state_' = [st EXCEPT ![t] = ClearState(@)]
                /\ IF EnqueueRet(interval) = 0
                   THEN taskList_' = InsertAt(taskList_, InsertPos(taskList_, executeTimeNs),
                                              [task |-> t, executeTimeNs_ |-> executeTimeNs])
                   ELSE UNCHANGED taskList_

\* a caller constructs a TaskHandler with an interval and enqueues it
TqEnqueuePeriodic ==
    /\ Len(enq) < MaxTasks
    /\ \E interval \in Intervals, cancelNotExecuted \in BOOLEAN, delayUs \in Delays :
          EnqueueTask([kind |-> "user", fd |-> 0, data |-> 0, periodicTimeUs_ |-> interval],
                      cancelNotExecuted, delayUs)
    /\ UNCHANGED <<isExit_, thread_, isTaskExecuting_, wpc, witem, ownerPc, clock, executed>>
    /\ UNCHANGED <<kVars, rVars, eVars, aVars, cVars, jVars, lVars, bVars>>

\* TaskProcessor: IsCanceled, then TaskHandler::Execute, which calls task_()
\* only when state_ is IDLE and returns at once otherwise
PeriodicCheck ==
    /\ wpc = "check"
    /\ IF state_[witem] = "CANCELED"
       THEN /\ isTaskExecuting_' = FALSE
            /\ wpc' = "wait"
            /\ witem' = 0
            /\ UNCHANGED <<state_, executed, taskList_>>
       ELSE IF state_[witem] = "IDLE"
       THEN /\ state_' = [state_ EXCEPT ![witem] = "RUNNING"]
            /\ executed' = Append(executed, witem)
            /\ wpc' = "run"
            /\ UNCHANGED <<isTaskExecuting_, witem, taskList_>>
       ELSE /\ LoopTail(witem, state_)
            /\ wpc' = "wait"
            /\ witem' = 0
            /\ UNCHANGED executed
    /\ UNCHANGED <<isExit_, thread_, ownerPc, clock, enq>>
    /\ UNCHANGED <<kVars, rVars, eVars, aVars, cVars, jVars, lVars, bVars>>

\* task_() returns: Execute sets FINISHED, then the loop tail
PeriodicReturn ==
    /\ wpc = "run"
    /\ LoopTail(witem, [state_ EXCEPT ![witem] = "FINISHED"])
    /\ wpc' = "wait"
    /\ witem' = 0
    /\ UNCHANGED <<isExit_, thread_, ownerPc, clock, enq, executed>>
    /\ UNCHANGED <<kVars, rVars, eVars, aVars, cVars, jVars, lVars, bVars>>

\* task_() throws: the exception leaves Execute before state_ is written and
\* is caught in TaskProcessor, then the loop tail
PeriodicThrow ==
    /\ wpc = "run"
    /\ LoopTail(witem, state_)
    /\ wpc' = "wait"
    /\ witem' = 0
    /\ UNCHANGED <<isExit_, thread_, ownerPc, clock, enq, executed>>
    /\ UNCHANGED <<kVars, rVars, eVars, aVars, cVars, jVars, lVars, bVars>>

NextTQPeriodic ==
    \/ TqStart
    \/ TqStopBegin
    \/ TqStopEnd
    \/ TqEnqueuePeriodic
    \/ Tick
    \/ TaskProcessorExit
    \/ TaskProcessorTake
    \/ PeriodicCheck
    \/ PeriodicReturn
    \/ PeriodicThrow

SpecTQPeriodic == Init /\ [][NextTQPeriodic]_vars

\* ---- a TaskQueue with delays up to the limit ----

\* the delays requested: none, the shortest, the longest allowed, the limit
LongDelays == {0, 1, MAX_DELAY_US - 1, MAX_DELAY_US}

\* delayUs * US_TO_NS + curTimeNs, a uint64_t of up to 10^10 here, kept as its
\* quotient and remainder by US_TO_NS
ExecuteTimeNs(delayUs, curTimeNs) ==
    [us |-> delayUs + curTimeNs \div US_TO_NS, ns |-> curTimeNs % US_TO_NS]

\* a > b on two such uint64_t values
TimeGreater(a, b) == a.us > b.us \/ (a.us = b.us /\ a.ns > b.ns)

\* std::find_if + list::insert position, with the predicate
\* item.executeTimeNs_ > executeTimeNs
LongInsertPos(list, executeTimeNs) ==
    IF \E i \in DOMAIN list : TimeGreater(list[i].executeTimeNs_, executeTimeNs)
    THEN CHOOSE i \in DOMAIN list :
            /\ TimeGreater(list[i].executeTimeNs_, executeTimeNs)
            /\ \A j \in 1..(i - 1) : ~TimeGreater(list[j].executeTimeNs_, executeTimeNs)
    ELSE Len(list) + 1

\* TaskQueue::EnqueueTask(task, cancelNotExecuted, delayUs) with a fresh task
EnqueueTaskLong(cancelNotExecuted, delayUs) ==
    LET t == Len(enq) + 1
        ret == EnqueueRet(delayUs)
        base == IF cancelNotExecuted THEN <<>> ELSE taskList_
        st1 == [state_ EXCEPT ![t] = ClearState(@)]
        st2 == IF cancelNotExecuted THEN CancelAll(taskList_, st1) ELSE st1
        executeTimeNs == ExecuteTimeNs(delayUs, clock)
    IN  /\ enq' = Append(enq, [cb |-> [kind |-> "user", fd |-> 0, data |-> 0],
                               delayUs |-> delayUs, ret |-> ret])
        /\ IF ret = 0
           THEN /\ taskList_' = InsertAt(base, LongInsertPos(base, executeTimeNs),
                                         [task |-> t, executeTimeNs_ |-> executeTimeNs])
                /\ state_' = st2
           ELSE /\ taskList_' = taskList_
                /\ state_' = st1

\* a caller of EnqueueTask
TqEnqueueLong ==
    /\ Len(enq) < MaxTasks
    /\ \E cancelNotExecuted \in BOOLEAN, delayUs \in LongDelays :
          EnqueueTaskLong(cancelNotExecuted, delayUs)
    /\ UNCHANGED <<isExit_, thread_, isTaskExecuting_, wpc, witem, ownerPc, clock, executed>>
    /\ UNCHANGED <<kVars, rVars, eVars, aVars, cVars, jVars, bVars>>
    /\ UNCHANGED <<lVars, bVars>>

\* TaskProcessor: the front item is due (curTimeNs >= item.executeTimeNs_)
\* and is popped
TaskProcessorTakeLong ==
    /\ wpc = "wait"
    /\ ~isExit_
    /\ taskList_ # <<>>
    /\ ~TimeGreater(Head(taskList_).executeTimeNs_, ExecuteTimeNs(0, clock))
    /\ witem' = Head(taskList_).task
    /\ taskList_' = Tail(taskList_)
    /\ isTaskExecuting_' = TRUE
    /\ wpc' = "check"
    /\ UNCHANGED <<isExit_, thread_, state_, ownerPc, clock, enq, executed>>
    /\ UNCHANGED <<kVars, rVars, eVars, aVars, cVars, jVars, bVars>>
    /\ UNCHANGED <<lVars, bVars>>

NextTQDelay ==
    \/ TqStart
    \/ TqStopBegin
    \/ TqStopEnd
    \/ TqEnqueueLong
    \/ Tick
    \/ TaskProcessorExit
    \/ TaskProcessorTakeLong
    \/ TaskProcessorExecute
    \/ TaskProcessorDone

SpecTQDelay == Init /\ [][NextTQDelay]_vars

\* ---- a TaskQueue whose Start and Stop are called by different threads ----

\* TaskQueue::Start, called while another thread may be inside Stop
RaceStart ==
    /\ IF thread_
       THEN UNCHANGED <<isExit_, thread_, wpc>>
       ELSE /\ isExit_' = FALSE
            /\ thread_' = TRUE
            /\ wpc' = "wait"
    /\ UNCHANGED <<taskList_, isTaskExecuting_, state_, witem, ownerPc, clock, enq, executed>>
    /\ UNCHANGED <<kVars, rVars, eVars, aVars, cVars, jVars, bVars>>
    /\ UNCHANGED <<lVars, bVars>>

\* TaskQueue::Stop up to t->join(): std::swap(thread_, t) takes the worker
\* out of thread_
RaceStopBegin ==
    /\ ownerPc = "idle"
    /\ jpc = "dead"
    /\ IF isExit_
       THEN UNCHANGED <<isExit_, thread_, ownerPc, wpc, witem, jpc, jitem>>
       ELSE /\ isExit_' = TRUE
            /\ thread_' = FALSE
            /\ ownerPc' = "joining"
            /\ jpc' = wpc
            /\ jitem' = witem
            /\ wpc' = "dead"
            /\ witem' = 0
    /\ UNCHANGED <<taskList_, isTaskExecuting_, state_, clock, enq, executed>>
    /\ UNCHANGED <<kVars, rVars, eVars, aVars, cVars>>
    /\ UNCHANGED <<lVars, bVars>>

\* TaskQueue::Stop after the join: CancelNotExecutedTaskLocked
RaceStopEnd ==
    /\ ownerPc = "joining"
    /\ jpc = "dead"
    /\ ownerPc' = "idle"
    /\ state_' = CancelAll(taskList_, state_)
    /\ taskList_' = <<>>
    /\ UNCHANGED <<isExit_, thread_, isTaskExecuting_, wpc, witem, clock, enq, executed>>
    /\ UNCHANGED <<kVars, rVars, eVars, aVars, cVars, jVars, bVars>>
    /\ UNCHANGED <<lVars, bVars>>

\* TaskProcessor of the thread being joined: the wait returns with isExit_ set
JoinedExit ==
    /\ jpc = "wait"
    /\ isExit_
    /\ jpc' = "dead"
    /\ UNCHANGED <<tqVars, kVars, rVars, eVars, aVars, cVars, jitem>>
    /\ UNCHANGED <<lVars, bVars>>

\* TaskProcessor of the thread being joined: the front item is due and is popped
JoinedTake ==
    /\ jpc = "wait"
    /\ ~isExit_
    /\ taskList_ # <<>>
    /\ clock >= Head(taskList_).executeTimeNs_
    /\ jitem' = Head(taskList_).task
    /\ taskList_' = Tail(taskList_)
    /\ isTaskExecuting_' = TRUE
    /\ jpc' = "check"
    /\ UNCHANGED <<isExit_, thread_, state_, wpc, witem, ownerPc, clock, enq, executed>>
    /\ UNCHANGED <<kVars, rVars, eVars, aVars, cVars>>
    /\ UNCHANGED <<lVars, bVars>>

\* TaskProcessor of the thread being joined: IsCanceled, TaskHandler::Execute
JoinedExecute ==
    /\ jpc = "check"
    /\ IF state_[jitem] = "IDLE"
       THEN /\ state_' = [state_ EXCEPT ![jitem] = "RUNNING"]
            /\ executed' = Append(executed, jitem)
            /\ jpc' = "run"
            /\ UNCHANGED <<isTaskExecuting_, jitem>>
       ELSE /\ isTaskExecuting_' = FALSE
            /\ jpc' = "wait"
            /\ jitem' = 0
            /\ UNCHANGED <<state_, executed>>
    /\ UNCHANGED <<taskList_, isExit_, thread_, wpc, witem, ownerPc, clock, enq>>
    /\ UNCHANGED <<kVars, rVars, eVars, aVars, cVars>>
    /\ UNCHANGED <<lVars, bVars>>

\* TaskProcessor of the thread being joined: task_() returned, the loop tail
JoinedDone ==
    /\ jpc = "run"
    /\ state_' = [state_ EXCEPT ![jitem] = "FINISHED"]
    /\ isTaskExecuting_' = FALSE
    /\ jpc' = "wait"
    /\ jitem' = 0
    /\ UNCHANGED <<taskList_, isExit_, thread_, wpc, witem, ownerPc, clock, enq, executed>>
    /\ UNCHANGED <<kVars, rVars, eVars, aVars, cVars>>
    /\ UNCHANGED <<lVars, bVars>>

NextTQRace ==
    \/ RaceStart
    \/ RaceStopBegin
    \/ RaceStopEnd
    \/ TqEnqueue
    \/ Tick
    \/ Worker
    \/ JoinedExit
    \/ JoinedTake
    \/ JoinedExecute
    \/ JoinedDone

SpecTQRace == Init /\ [][NextTQRace]_vars

\* ---- client setup: Init, then Connect ----

\* the setup step of TcpClientImpl::Init that fails ("none": all succeed);
\* setsockopt and bind run when a local address is given
InitFailures == {"none", "socket", "setsockopt", "bind"}

\* socket_ when Init returns: only a failed socket() leaves it invalid
SocketAfterInit(failure) == IF failure = "socket" THEN INVALID_SOCKET ELSE ClientFd

\* TcpClientImpl::Init
ClientInit ==
    /\ cpc = "init"
    /\ \E failure \in InitFailures :
          /\ socket_' = SocketAfterInit(failure)
          /\ cpc' = IF failure = "none" THEN "inited" ELSE "init_failed"
    /\ UNCHANGED <<tqVars, kVars, rVars, eVars, aVars, clientHandler_, closedAt>>
    /\ UNCHANGED <<jVars, lVars, bVars>>

\* TcpClientImpl::Connect on an endpoint whose Init has returned, also after a
\* Connect that returned false; connect() on a socket that is connected
\* already fails with EISCONN
ConnectCall ==
    /\ cpc \in {"inited", "init_failed", "connected", "connect_false"}
    /\ IF socket_ = INVALID_SOCKET
       THEN \* socket not initialized: return false
            /\ cpc' = "connect_false"
            /\ UNCHANGED <<socket_, clientHandler_, openFds, isExit_, thread_, wpc,
                           handlers_, epollInterest, readyList>>
       ELSE \/ \* connect() fails: ReInit closes the socket and runs Init again
               /\ openFds' = openFds \ {socket_}
               /\ epollInterest' = [epollInterest EXCEPT ![socket_] = {}]
               /\ readyList' = readyList \ {socket_}
               /\ \E failure \in InitFailures : socket_' = SocketAfterInit(failure)
               /\ cpc' = "connect_false"
               /\ UNCHANGED <<clientHandler_, isExit_, thread_, wpc, handlers_>>
            \/ \* connected: taskQueue_->Start(), RegisterHandler(clientHandler_)
               /\ cpc # "connected"
               /\ socket_ \notin openFds
               /\ cpc' = "connected"
               /\ clientHandler_' = TRUE
               /\ openFds' = openFds \cup {socket_}
               /\ IF thread_
                  THEN UNCHANGED <<isExit_, thread_, wpc>>
                  ELSE /\ isExit_' = FALSE
                       /\ thread_' = TRUE
                       /\ wpc' = "wait"
               /\ handlers_' = handlers_ \cup {socket_}
               /\ epollInterest' = [epollInterest EXCEPT ![socket_] = ToEpoll(GetEvents(FALSE))]
               /\ readyList' = ReadyAfterCtl(readyList, socket_, ToEpoll(GetEvents(FALSE)),
                                             PollState(socket_))
               /\ UNCHANGED socket_
            \/ \* connected, taskQueue_->Start(), clientHandler_ created, but
               \* RegisterHandler returns false (epoll_ctl ADD failed): return false
               /\ cpc # "connected"
               /\ socket_ \notin openFds
               /\ cpc' = "connect_false"
               /\ clientHandler_' = TRUE
               /\ openFds' = openFds \cup {socket_}
               /\ IF thread_
                  THEN UNCHANGED <<isExit_, thread_, wpc>>
                  ELSE /\ isExit_' = FALSE
                       /\ thread_' = TRUE
                       /\ wpc' = "wait"
               /\ UNCHANGED <<socket_, handlers_, epollInterest, readyList>>
    /\ UNCHANGED <<taskList_, isTaskExecuting_, state_, witem, ownerPc, clock, enq, executed>>
    /\ UNCHANGED <<backlog, rcvBuf, peerClosed, sockErr, sndSpace, wire>>
    /\ UNCHANGED <<rpc, rfd, revents, rev, eVars, aVars, closedAt>>
    /\ UNCHANGED <<jVars, lVars, bVars>>

NextSetup ==
    \/ ClientInit
    \/ ConnectCall
    \/ PeerSend
    \/ PeerClose
    \/ EpollWait
    \/ DispatchRead
    \/ ClientHandleReceive
    \/ ClientDispatchClose
    \/ CloseRemove
    \/ CloseFinish
    \/ Worker

SpecSetup == Init /\ [][NextSetup]_vars

\* ---- receive errors on one connection ----

NextRecvErr ==
    \/ SrvStart
    \/ FirstConnect
    \/ PeerSend
    \/ PeerReset
    \/ PeerTimeout
    \/ ReactorRecv
    \/ Worker

SpecRecvErr == Init /\ [][NextRecvErr]_vars

\* ---- Session objects kept by the user across connections ----

\* accept4 returns the lowest descriptor number that is not open
LowestFree == CHOOSE c \in Fds \ openFds : \A d \in Fds \ openFds : c <= d

\* DispatchEvent on the listener: HandleRead -> HandleAccept, the kernel handing
\* out the lowest free descriptor: a fresh socket, a fresh connection handler
AcceptLowest ==
    /\ rpc = "dispatch"
    /\ rfd = ListenFd
    /\ "EPOLLIN" \in revents
    /\ revents' = revents \ {"EPOLLIN"}
    /\ rpc' = AfterHandler(revents')
    /\ IF backlog = 0 \/ Fds \ openFds = {}
       THEN UNCHANGED <<tqVars, backlog, openFds, epollInterest, readyList, handlers_,
                        accepted, sessions_, connectionHandlers_, sendQueue_,
                        writeEventsEnabled_, rcvBuf, peerClosed, sockErr, sndSpace, wire>>
       ELSE LET c == LowestFree
            IN  /\ HandleAcceptOn(c)
                /\ rcvBuf' = [rcvBuf EXCEPT ![c] = <<>>]
                /\ peerClosed' = peerClosed \ {c}
                /\ sockErr' = [sockErr EXCEPT ![c] = "none"]
                /\ sndSpace' = [sndSpace EXCEPT ![c] = SndCap]
                /\ wire' = [wire EXCEPT ![c] = <<>>]
                /\ sendQueue_' = [sendQueue_ EXCEPT ![c] = <<>>]
                /\ writeEventsEnabled_' = [writeEventsEnabled_ EXCEPT ![c] = FALSE]
    /\ UNCHANGED <<rfd, rev, srvStarted, aVars, cVars>>
    /\ UNCHANGED <<jVars, lVars, bVars>>

\* DispatchEvent on a connection: HandleRead -> HandleReceive
ConnRead == rfd # ListenFd /\ DispatchRead

\* the Session objects made so far: the index of the OnAccept task that carries one
Sessions == {i \in DOMAIN enq : enq[i].cb.kind = "OnAccept"}

\* the session is the one in sessions_ under its descriptor
SessionLive(i) ==
    /\ enq[i].cb.fd \in sessions_
    /\ \A j \in Sessions : enq[j].cb.fd = enq[i].cb.fd => j <= i

\* SessionImpl::Send(buffer) on a session the listener got in OnAccept:
\* server_.lock() succeeds, TcpServerImpl::Send(fd, host, port, buffer) up to
\* the QueueSend call
SessionSend(t) ==
    /\ apc[t] = "idle"
    /\ Len(sends) < MaxSends
    /\ \E i \in Sessions \cap SeqRange(executed), buf \in Payloads(Len(sends) + 1) :
          LET fd == enq[i].cb.fd
              fails == SendRejects(buf) \/ fd \notin sessions_
                       \/ fd \notin connectionHandlers_
          IN  /\ sends' = Append(sends, [thr |-> t, fd |-> fd, buf |-> buf,
                                         ret |-> IF fails THEN "false" ELSE "pending",
                                         session |-> i, stale |-> ~SessionLive(i)])
              /\ apc' = [apc EXCEPT ![t] = IF fails THEN "idle" ELSE "queue"]
              /\ acall' = [acall EXCEPT ![t] = Len(sends) + 1]
    /\ UNCHANGED <<tqVars, kVars, rVars, eVars, aev, cVars>>
    /\ UNCHANGED <<jVars, lVars, bVars>>

NextSession ==
    \/ SrvStart
    \/ PeerConnect
    \/ PeerClose
    \/ EpollWait
    \/ AcceptLowest
    \/ ConnRead
    \/ HandleReceive
    \/ DispatchWrite
    \/ ProcessSendQueueSend
    \/ ProcessSendQueueFinal
    \/ DisableWriteEvents
    \/ DisableModify
    \/ DispatchClose
    \/ Worker
    \/ \E t \in Threads : SessionSend(t)
    \/ \E t \in Threads : QueueSend(t)
    \/ \E t \in Threads : EnableWriteEvents(t)
    \/ \E t \in Threads : EnableModify(t)

SpecSession == Init /\ [][NextSession]_vars

\* ---- properties of the send path ----

BytesOf(n) == SeqRange(sends[n].buf.data)

OnWire(fd) == SeqRange(wire[fd])

NullOrEmpty(buf) == buf.null \/ Len(buf.data) = 0

\* no QueueSend and no ProcessSendQueue call is in progress
SendPathIdle ==
    /\ \A t \in Threads : apc[t] = "idle"
    /\ rpc \notin {"psq_loop", "psq_final", "psq_dis", "psq_mod"}

(* C2: of two Send calls a then b made in that order by one thread on one
   connection, every byte of a is handed to the socket before any byte of b,
   also when a is written in parts; the bytes of one buffer go out in order,
   each once. *)
C2_SendOrder ==
    /\ \A a, b \in DOMAIN sends :
          (/\ a < b
           /\ sends[a].thr = sends[b].thr
           /\ sends[a].fd = sends[b].fd
           /\ sends[a].ret # "false"
           /\ sends[b].ret # "false")
          => LET w == wire[sends[a].fd]
             IN  /\ \A i, j \in DOMAIN w :
                       (w[i] \in BytesOf(a) /\ w[j] \in BytesOf(b)) => i < j
                 /\ (BytesOf(b) \cap SeqRange(w) # {}) => BytesOf(a) \subseteq SeqRange(w)
    /\ \A fd \in Fds : \A i, j \in DOMAIN wire[fd] :
          (i < j /\ wire[fd][i] \div 10 = wire[fd][j] \div 10) => wire[fd][i] < wire[fd][j]

\* a was written in part, its tail is the front of the queue and b waits behind it
C2_Witness ==
    \E a, b \in DOMAIN sends :
        /\ a < b
        /\ sends[a].thr = sends[b].thr
        /\ sends[a].fd = sends[b].fd
        /\ Len(sends[a].buf.data) = 2
        /\ wire[sends[a].fd] = SubSeq(sends[a].buf.data, 1, 1)
        /\ sendQueue_[sends[a].fd] = <<Remaining(sends[a].buf.data, 1), sends[b].buf.data>>

(* C3: every buffer for which Send returned true on an open connection is
   written in full once the socket is writable, whatever the interleaving of
   the Send calls with the reactor's ProcessSendQueue.  Stated on the states
   in which nothing is left to run: no call in progress, no event pending,
   socket writable, connection open. *)
C3_Claim ==
    \A fd \in Fds :
        (/\ SendPathIdle
         /\ rpc = "idle"
         /\ fd \notin readyList
         /\ fd \in sessions_
         /\ fd \in openFds
         /\ sockErr[fd] = "none"
         /\ sndSpace[fd] > 0)
        => \A n \in DOMAIN sends :
              (sends[n].fd = fd /\ sends[n].ret = "true") => BytesOf(n) \subseteq OnWire(fd)

(* C6: a connection's send queue is changed only by steps of the reactor
   thread; a Send call on another thread does not itself push onto it. *)
C6_Claim ==
    [][\A fd \in Fds :
          sendQueue_'[fd] # sendQueue_[fd] => (apc' = apc /\ rpc = "psq_loop" /\ rfd = fd)]_vars

(* C7: whenever no QueueSend or ProcessSendQueue call is in progress, write
   interest is armed if and only if the send queue is non-empty. *)
C7_Claim ==
    SendPathIdle =>
        \A fd \in Fds : writeEventsEnabled_[fd] <=> (sendQueue_[fd] # <<>>)

(* C8: between RegisterHandler and RemoveHandler the event set registered
   with epoll equals the handler's GetEvents() once every toggle has
   completed, and after RemoveHandler nothing is registered. *)
C8_Claim ==
    SendPathIdle =>
        \A fd \in Fds :
            IF fd \in handlers_
            THEN epollInterest[fd] = ToEpoll(GetEvents(writeEventsEnabled_[fd]))
            ELSE epollInterest[fd] = {}

(* C10: a Send with a null or zero-length payload returns false and leaves the
   connection's send queue and write-armed flag unchanged. *)
C10_RejectsEmpty ==
    [][(Len(sends') > Len(sends) /\ NullOrEmpty(sends'[Len(sends')].buf))
          => /\ sends'[Len(sends')].ret = "false"
             /\ apc'[sends'[Len(sends')].thr] = "idle"
             /\ UNCHANGED <<sendQueue_, writeEventsEnabled_, epollInterest>>]_vars

\* an empty payload was rejected on a live connection with data queued and write armed
C10_Witness ==
    \E n \in DOMAIN sends :
        /\ NullOrEmpty(sends[n].buf)
        /\ ~sends[n].buf.null
        /\ sends[n].ret = "false"
        /\ sends[n].fd \in sessions_
        /\ sendQueue_[sends[n].fd] # <<>>
        /\ writeEventsEnabled_[sends[n].fd]

\* ---- properties of receive, teardown and accept ----

(* C4: after a client's Close() has closed the connection and returned, no
   further listener callback is invoked for the descriptor, also when receive
   tasks were queued already or the reactor was dispatching an event when
   Close was called. *)
C4_Claim == cpc = "closed" => Len(executed) <= closedAt

\* the callbacks enqueued for a connection
EnqFor(fd) == {i \in DOMAIN enq : enq[i].cb.fd = fd /\ enq[i].cb.kind # "user"}

\* the peer has closed and the connection was never reset
CleanClose(fd) == fd \in peerClosed /\ sockErr[fd] = "none"

\* nothing is left to run for the connection
Settled(fd) == rpc = "idle" /\ fd \notin readyList /\ taskList_ = <<>> /\ wpc = "wait"

(* C5: when a peer sends data and then closes cleanly the listener gets
   OnReceive for all of the data, in order, then exactly one OnClose and no
   OnError: every chunk is read before the descriptor is closed, the one
   teardown comes from the CLOSE part of the event, and recv returning 0
   starts none. *)
C5_CleanClose ==
    /\ \A a, b \in DOMAIN executed : a < b => executed[a] < executed[b]
    /\ \A fd \in Fds : CleanClose(fd) =>
          /\ \A i \in EnqFor(fd) : enq[i].cb.kind # "OnError" /\ enq[i].ret = 0
          /\ Cardinality({i \in EnqFor(fd) : enq[i].cb.kind = "OnClose"}) <= 1
          /\ \A i, j \in EnqFor(fd) :
                (enq[i].cb.kind = "OnClose" /\ enq[j].cb.kind = "OnReceive") => j < i
          /\ \A i, j \in EnqFor(fd) :
                (i < j /\ enq[i].cb.kind = "OnReceive" /\ enq[j].cb.kind = "OnReceive")
                    => enq[i].cb.data < enq[j].cb.data
          /\ fd \notin openFds => rcvBuf[fd] = <<>>
          /\ Settled(fd) =>
                /\ EnqFor(fd) \subseteq SeqRange(executed)
                /\ \E i \in EnqFor(fd) : enq[i].cb.kind = "OnClose"

\* two chunks and the clean close of one connection were delivered, in order
C5_Witness ==
    \E fd \in Fds : \E i, j, k \in DOMAIN executed :
        /\ CleanClose(fd)
        /\ i < j /\ j < k
        /\ enq[executed[i]].cb = Callback("OnReceive", fd, Chunk(fd, 1))
        /\ enq[executed[j]].cb = Callback("OnReceive", fd, Chunk(fd, 2))
        /\ enq[executed[k]].cb = Callback("OnClose", fd, 0)
        /\ wpc = "wait"

(* C9: one HandleRead turn of the listener accepts every pending connection:
   when no turn is pending or in progress on the listener, the backlog is
   empty. *)
C9_Claim ==
    (/\ srvStarted
     /\ ListenFd \notin readyList
     /\ ~(rpc # "idle" /\ rfd = ListenFd))
    => backlog = 0

\* ---- properties of sessions, receive errors and setup ----

(* C11: Send on a Session whose connection has been torn down returns false
   and enqueues nothing on any connection. *)
C11_Claim == \A n \in DOMAIN sends : sends[n].stale => sends[n].ret = "false"

(* C12: a recv failure with an errno other than EAGAIN runs the close path
   with is_error = true: the handler is removed from the reactor, the
   descriptor is closed and OnError is enqueued for the session. *)
C12_Claim ==
    [][(/\ rpc = "recv"
        /\ rpc' # "recv"
        /\ rfd \in sessions_
        /\ RecvOutcome(rfd) \notin {"data", "zero", "EAGAIN"})
       => /\ rfd \notin handlers_'
          /\ rfd \notin openFds'
          /\ Len(enq') = Len(enq) + 1
          /\ enq'[Len(enq')].cb = Callback("OnError", rfd, 0)]_vars

(* C13: when Init fails at a setup step it returns false and leaves the
   endpoint with an invalid descriptor, so the Connect that follows returns
   false and registers nothing with the reactor. *)
C13_Claim ==
    [][(cpc = "init_failed" /\ cpc' # cpc)
          => /\ socket_ = INVALID_SOCKET
             /\ cpc' = "connect_false"
             /\ UNCHANGED <<handlers_, epollInterest>>]_vars

(* C14: no endpoint operation closes a descriptor that is still in the
   reactor's descriptor-to-handler map: a step that closes a descriptor leaves
   no handler registered under it. *)
C14_Claim ==
    [][\A fd \in Fds : (fd \in openFds /\ fd \notin openFds') => fd \notin handlers_']_vars

\* ---- properties of the TaskQueue ----

(* C15: a TaskQueue never has more than one worker thread alive and never
   executes two tasks at the same time, for any interleaving of concurrent
   Start, Stop and EnqueueTask calls. *)
C15_Claim ==
    /\ ~(wpc # "dead" /\ jpc # "dead")
    /\ ~(wpc = "run" /\ jpc = "run")

\* the task object t has an item in the list
InList(list, t) == \E i \in DOMAIN list : list[i].task = t

(* C16: when Stop returns on a started TaskQueue, the worker thread has
   exited (a task that was executing has run to completion), the task list is
   empty, and every task that was still queued has been canceled and is never
   executed afterwards. *)
C16_Claim ==
    [][/\ (ownerPc = "joining" /\ ownerPc' = "idle")
            => /\ wpc' = "dead"
               /\ ~isTaskExecuting_'
               /\ taskList_' = <<>>
               /\ \A i \in DOMAIN taskList_ : state_'[taskList_[i].task] = "CANCELED"
       /\ \A t \in DOMAIN enq :
            state_[t] = "CANCELED"
                => /\ state_'[t] = "CANCELED"
                   /\ executed' # executed => executed'[Len(executed')] # t]_vars

(* C17: EnqueueTask on a TaskQueue that has been stopped, or was never
   started, returns failure and does not insert the task into the list, and
   the task's function is never executed. *)
C17_Claim ==
    [][/\ (isExit_ /\ Len(enq') = Len(enq) + 1)
            => /\ enq'[Len(enq')].ret = -1
               /\ taskList_' = taskList_
       /\ \A t \in DOMAIN enq' :
            enq'[t].ret # 0
                => /\ ~InList(taskList_', t)
                   /\ \A i \in DOMAIN executed' : executed'[i] # t]_vars

\* requests were turned down on a queue never started and on a stopped one,
\* and the queue went on to execute an accepted task
C17_Witness ==
    /\ \E t \in DOMAIN enq : enq[t].ret # 0 /\ \A u \in 1..(t - 1) : enq[u].ret # 0
    /\ \E t, u \in DOMAIN enq : t < u /\ enq[t].ret = 0 /\ enq[u].ret # 0
    /\ executed # <<>>

(* C18: for a non-null task on a running TaskQueue, EnqueueTask fails exactly
   when delay_us is at least 10,000,000: a delay of 10,000,000 is rejected,
   a delay of 9,999,999 is accepted, and a rejected request leaves the task
   list unchanged. *)
C18_Claim ==
    [][(~isExit_ /\ Len(enq') = Len(enq) + 1)
          => LET r == enq'[Len(enq')]
             IN  /\ r.ret # 0 <=> r.delayUs >= 10000000
                 /\ r.delayUs = 10000000 => r.ret # 0
                 /\ r.delayUs = 9999999 => r.ret = 0 /\ InList(taskList_', Len(enq'))
                 /\ r.ret # 0 => taskList_' = taskList_]_vars

\* on a running queue with a task waiting, a request with the limit was turned
\* down and one with a microsecond less was accepted
C18_Witness ==
    /\ ~isExit_
    /\ \E t, u \in DOMAIN enq :
          /\ t < u
          /\ enq[t].ret = 0
          /\ enq[u].delayUs = 10000000 /\ enq[u].ret # 0
          /\ InList(taskList_, t)
    /\ \E t \in DOMAIN enq : enq[t].delayUs = 9999999 /\ enq[t].ret = 0

(* C19: Start on an already started TaskQueue returns success without
   creating a second worker or changing the queue, and Stop on an already
   stopped TaskQueue returns success without changing any state. *)
C19_Claim ==
    [][(Len(life') = Len(life) + 1)
          => LET r == life'[Len(life')]
             IN  /\ (r.op = "Start" /\ thread_) => (r.ret = 0 /\ UNCHANGED tqVars)
                 /\ (r.op = "Stop" /\ ownerPc = "idle" /\ isExit_)
                        => (r.ret = 0 /\ UNCHANGED tqVars)]_vars

\* a second Start returned while the worker was executing with a task waiting,
\* and a second Stop returned after the first
C19_Witness ==
    /\ \E i \in 1..(Len(life) - 3) :
          /\ life[i].op = "Start" /\ life[i + 1].op = "Start"
          /\ life[i + 2].op = "Stop" /\ life[i + 3].op = "Stop"
    /\ executed # <<>>
    /\ \E t \in DOMAIN enq : state_[t] = "CANCELED"

(* C20: if a task's function throws, the worker catches the exception and
   goes on to execute the tasks queued after it; a periodic task whose
   function threw is still re-enqueued with its interval and keeps being
   executed on later periods: when the worker pops it again and it was not
   canceled, its function runs. *)
C20_Claim ==
    [][/\ (wpc = "run" /\ wpc' # "run")
            => /\ wpc' = "wait"
               /\ (PeriodicTimeUs(witem) # UINT64_MAX /\ ~isExit_)
                      => \E i \in DOMAIN taskList_' :
                            /\ taskList_'[i].task = witem
                            /\ taskList_'[i].executeTimeNs_
                                  = PeriodicTimeUs(witem) * US_TO_NS + clock
       /\ (wpc = "check" /\ wpc' # "check" /\ state_[witem] # "CANCELED")
            => executed' = Append(executed, witem)]_vars

\* ---- member calls on one DataBuffer ----

\* the buffer after a member call, with the call recorded
BufferCall(op, arg, after) ==
    /\ nops' = nops + 1
    /\ lastOp' = [op |-> op, arg |-> arg]
    /\ data_' = after.data_
    /\ size_' = after.size_
    /\ capacity_' = after.capacity_

AssignCall ==
    /\ nops < MaxOps
    /\ \E bytes \in ByteSeqs : BufferCall("Assign", bytes, Assign(ThisBuffer, bytes))
    /\ UNCHANGED <<tqVars, kVars, rVars, eVars, aVars, cVars, jVars, lVars>>
    /\ UNCHANGED <<rbVars, stVars, tpVars, plVars, udVars, erVars, spVars, ccVars>>

AppendCall ==
    /\ nops < MaxOps
    /\ \E bytes \in ByteSeqs : BufferCall("Append", bytes, AppendBytes(ThisBuffer, bytes))
    /\ UNCHANGED <<tqVars, kVars, rVars, eVars, aVars, cVars, jVars, lVars>>
    /\ UNCHANGED <<rbVars, stVars, tpVars, plVars, udVars, erVars, spVars, ccVars>>

SetSizeCall ==
    /\ nops < MaxOps
    /\ \E len \in Lens : BufferCall("SetSize", <<len>>, SetSize(ThisBuffer, len))
    /\ UNCHANGED <<tqVars, kVars, rVars, eVars, aVars, cVars, jVars, lVars>>
    /\ UNCHANGED <<rbVars, stVars, tpVars, plVars, udVars, erVars, spVars, ccVars>>

ClearCall ==
    /\ nops < MaxOps
    /\ BufferCall("Clear", <<>>, Clear(ThisBuffer))
    /\ UNCHANGED <<tqVars, kVars, rVars, eVars, aVars, cVars, jVars, lVars>>
    /\ UNCHANGED <<rbVars, stVars, tpVars, plVars, udVars, erVars, spVars, ccVars>>

NextBuffer == AssignCall \/ AppendCall \/ SetSizeCall \/ ClearCall

SpecBuffer == Init /\ [][NextBuffer]_vars

\* ---- the buffer handed to OnReceive ----

\* bound: recv and recvfrom calls that return data
MaxRecvs == 2

\* what a datagram or one recv returns
Datagrams == ByteSeqs \ {<<>>}

\* the DataBuffer a reference stands for: 0 is the endpoint's readBuffer_, k > 0
\* the k-th buffer created for a callback
Deref(e, ref) == IF ref = 0 THEN readBuffer_[e] ELSE made[ref]

\* Data()[0 .. Size()) of a buffer
Contents(b) == Prefix(b.data_, b.size_)

\* the buffer OnReceive gets: the one just created
PayloadRef_shared(k) == 0
PayloadRef(k) == k

\* one iteration of the loop of TcpServerImpl::HandleReceive in which recv returns
\* data, up to the task being enqueued
TcpRecv ==
    /\ Len(received) < MaxRecvs
    /\ \E bytes \in Datagrams, listener \in BOOLEAN :
          LET rb == [readBuffer_["tcp"] EXCEPT !.data_ = Memcpy(@, 0, bytes)]
              dataBuffer == Assign(DataBufferOf(Len(bytes)), Prefix(rb.data_, Len(bytes)))
          IN /\ readBuffer_' = [readBuffer_ EXCEPT !["tcp"] = rb]
             /\ IF listener
                THEN /\ made' = Append(made, dataBuffer)
                     /\ received' = Append(received,
                           [endpoint |-> "tcp", bytes |-> bytes,
                            ref |-> PayloadRef(Len(made) + 1), ran |-> FALSE])
                ELSE UNCHANGED <<made, received>>
    /\ UNCHANGED <<tqVars, kVars, rVars, eVars, aVars, cVars, jVars, lVars, dbVars, stVars, tpVars, plVars, udVars, erVars, spVars, ccVars>>

\* the worker thread runs the task of a TcpServerImpl::HandleReceive
RunOnReceive ==
    /\ \E i \in DOMAIN received :
          /\ ~received[i].ran
          /\ \A j \in 1..(i - 1) : received[j].ran
          /\ received' = [received EXCEPT ![i].ran = TRUE]
    /\ UNCHANGED <<tqVars, kVars, rVars, eVars, aVars, cVars, jVars, lVars, dbVars, stVars, tpVars, plVars, udVars, erVars, spVars, ccVars>>
    /\ UNCHANGED <<readBuffer_, made>>

\* UdpServerImpl::HandleReceive with recvfrom returning a datagram
UdpRecv ==
    /\ Len(received) < MaxRecvs
    /\ \E bytes \in Datagrams, listener \in BOOLEAN :
          LET cleared == Clear(readBuffer_["udp"])
              filled == [cleared EXCEPT !.data_ = Memcpy(@, 0, bytes)]
              rb == SetSize(filled, Len(bytes))
          IN /\ readBuffer_' = [readBuffer_ EXCEPT !["udp"] = rb]
             /\ IF listener
                THEN /\ made' = Append(made, DataBufferCopy(rb))
                     /\ received' = Append(received,
                           [endpoint |-> "udp", bytes |-> bytes,
                            ref |-> PayloadRef(Len(made) + 1), ran |-> TRUE])
                ELSE UNCHANGED <<made, received>>
    /\ UNCHANGED <<tqVars, kVars, rVars, eVars, aVars, cVars, jVars, lVars, dbVars, stVars, tpVars, plVars, udVars, erVars, spVars, ccVars>>

NextCopy == TcpRecv \/ RunOnReceive \/ UdpRecv

SpecCopy == Init /\ [][NextCopy]_vars

\* ---- the byte stream of one connection ----

\* bound: bytes the peer writes to the connection
MaxStream == 8193

\* the sizes of the peer's writes
WriteSizes == {RECV_BUFFER_MAX_SIZE - 1, RECV_BUFFER_MAX_SIZE, RECV_BUFFER_MAX_SIZE + 1}

\* the most one recv returns: readBuffer_->Capacity()
RecvMax_double == 2 * align(RECV_BUFFER_MAX_SIZE)
RecvMax == align(RECV_BUFFER_MAX_SIZE)

\* what recv may return with avail bytes in the socket: anything from 1 to the
\* smaller of avail and the length asked for; the model takes the two ends
RecvSizes(avail) == {1, Min(avail, RecvMax)}

\* the peer writes to the connection
PeerWrite ==
    /\ \E k \in WriteSizes :
          /\ streamSent + k <= MaxStream
          /\ streamSent' = streamSent + k
    /\ UNCHANGED <<tqVars, kVars, rVars, eVars, aVars, cVars, jVars, lVars, dbVars, rbVars, tpVars, plVars, udVars, erVars, spVars, ccVars>>
    /\ UNCHANGED streamRead

\* one iteration of the loop of TcpServerImpl::HandleReceive (and of
\* TcpClientImpl::HandleReceive) with data in the socket and the listener set;
\* the payload is written as <<offset in the stream, length>>
StreamRecv ==
    /\ thread_
    /\ Len(enq) < MaxTasks
    /\ streamRead < streamSent
    /\ \E nbytes \in RecvSizes(streamSent - streamRead) :
          /\ streamRead' = streamRead + nbytes
          /\ IF nbytes > RECV_BUFFER_MAX_SIZE
             THEN \* break
                  UNCHANGED <<taskList_, state_, enq>>
             ELSE EnqueueTask(Callback("OnReceive", 1, <<streamRead, nbytes>>), FALSE, 0)
    /\ UNCHANGED <<isExit_, thread_, isTaskExecuting_, wpc, witem, ownerPc, clock, executed>>
    /\ UNCHANGED <<kVars, rVars, eVars, aVars, cVars, jVars, lVars, dbVars, rbVars, tpVars, plVars, udVars, erVars, spVars, ccVars>>
    /\ UNCHANGED streamSent

NextStream == TqStart \/ PeerWrite \/ StreamRecv \/ Tick \/ Worker

SpecStream == Init /\ [][NextStream]_vars

\* ---------------------------------------------------------------- ThreadPool

\* idle_: the workers inside signal_.wait
idle_ == Cardinality({w \in PoolThreads : tpc[w] = "wait"})

\* threads_.size()
ThreadCount == Cardinality({w \in PoolThreads : tpc[w] # "none"})

\* where AddTask puts a serial task whose tag has no task running: the normal queue
DirectQueue(tag) == tag \notin runningSerialTags_

\* ThreadPool::AddTask(task, serialTag)
AddTask ==
    /\ Len(added) < MaxAdds
    /\ \E tag \in Tags :
          LET t == Len(added) + 1 IN
          /\ added' = Append(added, tag)
          /\ IF tag # "" /\ ~DirectQueue(tag)
             THEN \* a task of the tag is running: the tag's waiting queue, return
                  /\ serialTasks_' = [serialTasks_ EXCEPT ![tag] = Append(@, t)]
                  /\ UNCHANGED <<tasks_, runningSerialTags_, tpc>>
             ELSE /\ tasks_' = Append(tasks_, t)
                  /\ runningSerialTags_' = IF tag = "" THEN runningSerialTags_
                                           ELSE runningSerialTags_ \cup {tag}
                  /\ tpc' = IF idle_ = 0 /\ ThreadCount < THREAD_NUM_MAX
                            THEN [tpc EXCEPT ![ThreadCount + 1] = "loop"]
                            ELSE tpc
                  /\ UNCHANGED serialTasks_
    /\ UNCHANGED <<availableSerialTags_, ttask, ran>>
    /\ UNCHANGED <<tqVars, kVars, rVars, eVars, aVars, cVars, jVars, lVars, dbVars, rbVars, stVars, plVars, udVars, erVars, spVars, ccVars>>

\* Worker: the top of the loop up to signal_.wait
WorkerWait ==
    /\ \E w \in PoolThreads :
          /\ tpc[w] = "loop"
          /\ tpc' = [tpc EXCEPT ![w] = "wait"]
    /\ UNCHANGED <<tasks_, serialTasks_, runningSerialTags_, availableSerialTags_, ttask,
                   added, ran>>
    /\ UNCHANGED <<tqVars, kVars, rVars, eVars, aVars, cVars, jVars, lVars, dbVars, rbVars, stVars, plVars, udVars, erVars, spVars, ccVars>>

\* ThreadPool::GetNextSerialTask: the task returned (0: nullptr)
GetNextSerialTask ==
    IF availableSerialTags_ = <<>> THEN 0
    ELSE LET tag == Head(availableSerialTags_) IN
         IF serialTasks_[tag] # <<>> /\ tag \notin runningSerialTags_
         THEN Head(serialTasks_[tag])
         ELSE 0

\* Worker: the wait is over; a task is taken under the lock and its fn is called
WorkerTake ==
    /\ \E w \in PoolThreads :
          /\ tpc[w] = "wait"
          /\ tasks_ # <<>> \/ availableSerialTags_ # <<>>
          /\ IF tasks_ # <<>>
             THEN /\ ttask' = [ttask EXCEPT ![w] = Head(tasks_)]
                  /\ tasks_' = Tail(tasks_)
                  /\ UNCHANGED <<serialTasks_, runningSerialTags_, availableSerialTags_>>
             ELSE LET tag == Head(availableSerialTags_)
                      task == GetNextSerialTask
                  IN /\ availableSerialTags_' = Tail(availableSerialTags_)
                     /\ ttask' = [ttask EXCEPT ![w] = task]
                     /\ IF task # 0
                        THEN /\ serialTasks_' = [serialTasks_ EXCEPT ![tag] = Tail(@)]
                             /\ runningSerialTags_' = runningSerialTags_ \cup {tag}
                        ELSE UNCHANGED <<serialTasks_, runningSerialTags_>>
                     /\ UNCHANGED tasks_
          /\ tpc' = [tpc EXCEPT ![w] = IF ttask'[w] # 0 THEN "run" ELSE "loop"]
          /\ ran' = IF ttask'[w] # 0 THEN Append(ran, ttask'[w]) ELSE ran
    /\ UNCHANGED added
    /\ UNCHANGED <<tqVars, kVars, rVars, eVars, aVars, cVars, jVars, lVars, dbVars, rbVars, stVars, plVars, udVars, erVars, spVars, ccVars>>

\* Worker: fn has returned; the tag's running mark is cleared and the tag is made
\* available when tasks of it wait
WorkerFinish ==
    /\ \E w \in PoolThreads :
          /\ tpc[w] = "run"
          /\ LET tag == added[ttask[w]] IN
             IF tag # ""
             THEN /\ runningSerialTags_' = runningSerialTags_ \ {tag}
                  /\ availableSerialTags_' = IF serialTasks_[tag] # <<>>
                                             THEN Append(availableSerialTags_, tag)
                                             ELSE availableSerialTags_
             ELSE UNCHANGED <<runningSerialTags_, availableSerialTags_>>
          /\ tpc' = [tpc EXCEPT ![w] = "loop"]
          /\ ttask' = [ttask EXCEPT ![w] = 0]
    /\ UNCHANGED <<tasks_, serialTasks_, added, ran>>
    /\ UNCHANGED <<tqVars, kVars, rVars, eVars, aVars, cVars, jVars, lVars, dbVars, rbVars, stVars, plVars, udVars, erVars, spVars, ccVars>>

NextPool == AddTask \/ WorkerWait \/ WorkerTake \/ WorkerFinish

SpecPool == Init /\ [][NextPool]_vars

\* ---------------------------------------------------------------- buffer pool

\* a buffer is a record of its identity, its size_ and capacity_, and whether its
\* shared_ptr has PoolFree as deleter

Last(q) == q[Len(q)]
Front(q) == SubSeq(q, 1, Len(q) - 1)

\* what a holder does in one burst: "plain" allocates up to 4096 bytes and assigns
\* that many, "grown" assigns more than the block holds, "large" asks for more
\* than a block
Kinds == {"plain", "grown", "large"}
AllocLen(kind) == IF kind = "large" THEN POOL_BLOCK_SIZE + 1 ELSE POOL_BLOCK_SIZE
AssignLen(kind) == IF kind = "plain" THEN POOL_BLOCK_SIZE ELSE POOL_BLOCK_SIZE + 1

\* the sizes of a burst: one buffer, and for buffers that can go back to the pool
\* one more than both tiers hold
Bursts(kind) ==
    IF kind = "plain" THEN {1, POOL_LOCAL_MAX + POOL_GLOBAL_MAX + 1} ELSE {1}

\* size_ and capacity_ after DataBuffer::Assign of len bytes
AssignShape(b, len) ==
    IF len = 0 THEN b
    ELSE [b EXCEPT !.size_ = len,
                   !.capacity_ = IF len > b.capacity_ THEN align(len) ELSE b.capacity_]

\* PoolFree: the buffers that go back to the pool
Poolable_any(b) == TRUE
Poolable(b) == b.capacity_ = POOL_BLOCK_SIZE

\* the holder starts a burst
BurstBegin ==
    /\ bpc = "idle"
    /\ nbursts < MaxBursts
    /\ nbursts' = nbursts + 1
    /\ bpc' = "alloc"
    /\ bkind' \in Kinds
    /\ bleft' \in Bursts(bkind')
    /\ brel' \in PoolUsers
    /\ UNCHANGED <<t_localPool, g_bufferPool, held, nextId, lastAlloc>>
    /\ UNCHANGED <<tqVars, kVars, rVars, eVars, aVars, cVars, jVars, lVars, dbVars, rbVars, stVars, tpVars, udVars, erVars, spVars, ccVars>>

\* DataBuffer::PoolAlloc(len) on the reactor thread, and the Assign of the holder
PoolAlloc ==
    /\ bpc = "alloc"
    /\ LET len == AllocLen(bkind)
           local == t_localPool["reactor"]
           fromLocal == len <= POOL_BLOCK_SIZE /\ local # <<>>
           fromGlobal == len <= POOL_BLOCK_SIZE /\ local = <<>> /\ g_bufferPool # <<>>
           buf == IF fromLocal THEN [Last(local) EXCEPT !.size_ = 0]
                  ELSE IF fromGlobal THEN [Last(g_bufferPool) EXCEPT !.size_ = 0]
                  ELSE [id |-> nextId + 1, size_ |-> 0, capacity_ |-> align(len),
                        pooled |-> len <= POOL_BLOCK_SIZE]
       IN /\ t_localPool' = IF fromLocal
                            THEN [t_localPool EXCEPT !["reactor"] = Front(@)]
                            ELSE t_localPool
          /\ g_bufferPool' = IF fromGlobal THEN Front(g_bufferPool) ELSE g_bufferPool
          /\ nextId' = IF fromLocal \/ fromGlobal THEN nextId ELSE nextId + 1
          /\ held' = Append(held, AssignShape(buf, AssignLen(bkind)))
          /\ lastAlloc' = IF len <= POOL_BLOCK_SIZE
                          THEN [id |-> buf.id, size_ |-> buf.size_,
                                capacity_ |-> buf.capacity_,
                                holders |-> Cardinality({i \in DOMAIN held :
                                                            held[i].id = buf.id})]
                          ELSE lastAlloc
    /\ bleft' = bleft - 1
    /\ bpc' = IF bleft' = 0 THEN "release" ELSE "alloc"
    /\ UNCHANGED <<bkind, brel, nbursts>>
    /\ UNCHANGED <<tqVars, kVars, rVars, eVars, aVars, cVars, jVars, lVars, dbVars, rbVars, stVars, tpVars, udVars, erVars, spVars, ccVars>>

\* the last shared_ptr of the oldest buffer held is released on thread brel: the
\* deleter, DataBuffer::PoolFree for a buffer of the pool
PoolFree ==
    /\ bpc = "release"
    /\ LET buf == Head(held)
           t == brel
           toLocal == /\ buf.pooled
                      /\ Poolable(buf)
                      /\ Len(t_localPool[t]) < POOL_LOCAL_MAX
           toGlobal == /\ buf.pooled
                       /\ Poolable(buf)
                       /\ ~toLocal
                       /\ Len(g_bufferPool) < POOL_GLOBAL_MAX
           cleared == [buf EXCEPT !.size_ = 0]
       IN /\ t_localPool' = IF toLocal
                            THEN [t_localPool EXCEPT ![t] = Append(@, cleared)]
                            ELSE t_localPool
          /\ g_bufferPool' = IF toGlobal THEN Append(g_bufferPool, cleared)
                             ELSE g_bufferPool
    /\ held' = Tail(held)
    /\ bpc' = IF held' = <<>> THEN "idle" ELSE "release"
    /\ UNCHANGED <<nextId, lastAlloc, bkind, bleft, brel, nbursts>>
    /\ UNCHANGED <<tqVars, kVars, rVars, eVars, aVars, cVars, jVars, lVars, dbVars, rbVars, stVars, tpVars, udVars, erVars, spVars, ccVars>>

NextBufferPool == BurstBegin \/ PoolAlloc \/ PoolFree

SpecBufferPool == Init /\ [][NextBufferPool]_vars

\* ---- properties of the reactor, the buffers and the thread pool ----

(* C21: a successful RegisterHandler(h) followed by a successful
   RemoveHandler of h's descriptor returns the reactor to its prior state.
   RegisterHandler adds the descriptor to the kernel's registered set and to
   the map and RemoveHandler takes it out of both, so the state is restored
   exactly when the descriptor had no map entry before the register; the
   entries of all other descriptors stay as they are in both steps. *)
C21_Claim ==
    [][\A fd \in AllFds :
          /\ (epollInterest[fd] = {} /\ epollInterest'[fd] # {})
                => /\ fd \notin handlers_
                   /\ handlers_' = handlers_ \cup {fd}
                   /\ \A g \in AllFds \ {fd} : epollInterest'[g] = epollInterest[g]
          /\ (fd \in handlers_ /\ fd \notin handlers_')
                => /\ handlers_' = handlers_ \ {fd}
                   /\ epollInterest' = [epollInterest EXCEPT ![fd] = {}]]_vars

\* the flags of the entry point DispatchEvent calls first for an event
FirstFlags(events) ==
    IF "EPOLLIN" \in events THEN {"EPOLLIN"}
    ELSE IF "EPOLLOUT" \in events THEN {"EPOLLOUT"}
    ELSE IF "EPOLLERR" \in events THEN {"EPOLLERR"}
    ELSE events \cap {"EPOLLHUP", "EPOLLRDHUP"}

(* C22: for one ready event carrying several flags, DispatchEvent invokes on
   the descriptor's handler each entry point whose flag is set, in the fixed
   order HandleRead, HandleWrite, HandleError, HandleClose, all within the
   same turn: each call DispatchEvent makes is the one for the first flags
   not handled yet, and the turn ends only when no flag is left unhandled. *)
C22_Claim ==
    [][/\ (rpc = "dispatch" /\ revents' # revents)
            => revents' = revents \ FirstFlags(revents)
       /\ (rpc # "idle" /\ rpc' = "idle")
            => \/ revents = {}
               \/ rpc = "dispatch" /\ revents = FirstFlags(revents) /\ revents' = {}]_vars

(* C23: an exception thrown by a handler entry point is caught inside the
   reactor; the reactor thread keeps running and continues to dispatch the
   remaining ready events of the batch and all later events: after the catch
   the thread is back in its loop with the ready events, the registered set
   and the handler map as they were. *)
C23_Claim ==
    [][(rpc = "caught" /\ rpc' # "caught")
          => /\ rpc' = "idle"
             /\ UNCHANGED <<readyList, epollInterest, handlers_>>]_vars

\* the entry point that had read a connection's first chunk threw, and a
\* later event of the connection was dispatched: its second chunk has its task
C23_Witness ==
    \E fd \in Fds :
        /\ \E i \in DOMAIN enq : enq[i].cb = Callback("OnReceive", fd, Chunk(fd, 2))
        /\ \A i \in DOMAIN enq : enq[i].cb # Callback("OnReceive", fd, Chunk(fd, 1))


\* C27: after b.Assign(bytes, len), whatever b held before, b.Size() is len and
\* the first len bytes of b.Data() are the bytes given
C27_Claim ==
    [][(nops' = nops + 1 /\ lastOp'.op = "Assign")
          => /\ size_' = Len(lastOp'.arg)
             /\ Prefix(data_', size_') = lastOp'.arg]_vars

\* C24: the DataBuffer passed to OnReceive is a private copy: at every moment,
\* before and after the callback runs, it holds the bytes the recv or recvfrom
\* returned for it, whatever later receives wrote into the endpoint's buffer
C24_Claim ==
    \A i \in DOMAIN received :
        Contents(Deref(received[i].endpoint, received[i].ref)) = received[i].bytes

\* a callback that has not run yet while a later receive on the same endpoint
\* has put other bytes into the receive buffer
C24_Witness ==
    \E i, j \in DOMAIN received :
        /\ i < j
        /\ ~received[i].ran
        /\ received[j].endpoint = received[i].endpoint
        /\ received[j].bytes # received[i].bytes

\* C25: on one stream connection with a listener set the payloads handed to
\* OnReceive, put together in the order of delivery, are the bytes read from the
\* socket so far: each payload starts where the one before it ended, the last
\* one enqueued ends at the last byte read, the callbacks run in that order, and
\* no payload has more than 4096 bytes
C25_Claim ==
    LET payload(i) == enq[i].cb.data
        ends(i) == payload(i)[1] + payload(i)[2]
    IN  /\ \A i \in DOMAIN enq :
              /\ payload(i)[1] = IF i = 1 THEN 0 ELSE ends(i - 1)
              /\ payload(i)[2] \in 1..RECV_BUFFER_MAX_SIZE
              /\ enq[i].ret = 0
        /\ streamRead = IF enq = <<>> THEN 0 ELSE ends(Len(enq))
        /\ \A j \in DOMAIN executed : executed[j] = j

\* a write of more than 4096 bytes delivered as a full payload and a rest
C25_Witness ==
    /\ Len(executed) >= 2
    /\ \E i \in DOMAIN enq : enq[i].cb.data[2] = RECV_BUFFER_MAX_SIZE
    /\ streamRead > RECV_BUFFER_MAX_SIZE

\* C26: tasks added to the ThreadPool with the same non-empty serial tag are
\* executed in the order in which they were added
C26_Claim ==
    \A j \in DOMAIN ran : \A t \in 1..(ran[j] - 1) :
        (added[ran[j]] # "" /\ added[t] = added[ran[j]])
            => \E i \in 1..(j - 1) : ran[i] = t

\* the buffers in the two tiers of the pool, tier after tier
Pooled == t_localPool["reactor"] \o t_localPool["worker"] \o g_bufferPool

\* C28: the thread-local tier never holds more than 32 buffers and the global
\* tier never more than 1024; every buffer in the pool has capacity 4096 and
\* size 0; no buffer is in the pool twice or in the pool and with a holder; and
\* what PoolAlloc of at most 4096 bytes returned was an empty 4096-byte buffer
\* that nobody held
C28_Claim ==
    LET pool == Pooled IN
    /\ \A t \in PoolUsers : Len(t_localPool[t]) <= POOL_LOCAL_MAX
    /\ Len(g_bufferPool) <= POOL_GLOBAL_MAX
    /\ \A i \in DOMAIN pool :
          /\ pool[i].capacity_ = POOL_BLOCK_SIZE
          /\ pool[i].size_ = 0
    /\ Cardinality({pool[i].id : i \in DOMAIN pool} \cup {held[i].id : i \in DOMAIN held})
          = Len(pool) + Len(held)
    /\ lastAlloc.capacity_ = POOL_BLOCK_SIZE
    /\ lastAlloc.size_ = 0
    /\ lastAlloc.holders = 0

\* both tiers full, and a PoolAlloc that took a buffer out of the pool
C28_Witness ==
    /\ \E t \in PoolUsers : Len(t_localPool[t]) = POOL_LOCAL_MAX
    /\ Len(g_bufferPool) = POOL_GLOBAL_MAX
    /\ nbursts = MaxBursts
    /\ lastAlloc.id # 0
    /\ lastAlloc.id < nextId

\* the front buffer of a connection's send queue starts with the byte that
\* follows the last byte handed to the socket
FrontIsNext(fd) ==
    sendQueue_[fd] # <<>> =>
        LET first == Head(sendQueue_[fd])[1]
            w == wire[fd]
        IN  IF first % 10 = 1
            THEN \/ w = <<>>
                 \/ w[Len(w)] % 10 = Len(sends[w[Len(w)] \div 10].buf.data)
            ELSE w # <<>> /\ first = w[Len(w)] + 1

\* C29: when send() takes only k of the n bytes of the front buffer, the front
\* of the send queue becomes a buffer holding the other n - k bytes in order,
\* the rest of the queue stays as it is and ProcessSendQueue sends nothing more
\* in that turn; the front buffer's first byte is always the next byte to
\* transmit
C29_Claim ==
    [][\A fd \in Fds :
          LET k == Len(wire'[fd]) - Len(wire[fd])
              buf == Head(sendQueue_[fd])
          IN /\ (k > 0 /\ k < Len(buf))
                   => /\ wire'[fd] = wire[fd] \o SubSeq(buf, 1, k)
                      /\ sendQueue_'[fd] = <<SubSeq(buf, k + 1, Len(buf))>> \o Tail(sendQueue_[fd])
                      /\ rpc' = "psq_final"
             /\ FrontIsNext(fd)']_vars

\* a buffer of two bytes is written one byte at a time with another buffer
\* waiting behind it
C29_Witness ==
    \E fd \in Fds :
        /\ Len(sendQueue_[fd]) = 2
        /\ Len(Head(sendQueue_[fd])) = 1
        /\ Head(sendQueue_[fd])[1] % 10 = 2
        /\ wire[fd] # <<>>
        /\ rpc = "psq_final"

\* the OnClose and OnError tasks enqueued for a descriptor
Teardowns(fd) ==
    {i \in DOMAIN enq : enq[i].cb.fd = fd /\ enq[i].cb.kind \in {"OnClose", "OnError"}}

\* C30: the teardown of a connection runs at most once, however many error
\* events, close events and recv failures are reported for it, also within one
\* dispatch turn: the step that closes the descriptor is the step that removes
\* its handler and the step that enqueues its OnClose or OnError task, and a
\* connection never has more than one such task
C30_Claim ==
    [][\A fd \in Fds :
          LET closes == fd \in openFds /\ fd \notin openFds'
              removes == fd \in handlers_ /\ fd \notin handlers_'
              before == Cardinality(Teardowns(fd))
              after == Cardinality(Teardowns(fd)')
          IN /\ closes <=> removes
             /\ closes <=> after = before + 1
             /\ after \in {before, before + 1}
             /\ after <= 1]_vars

\* a reset reported as EPOLLIN, EPOLLERR and EPOLLHUP in one turn: the failed recv
\* tore the connection down and the turn went on to HandleError
C30_Witness ==
    /\ rpc = "dispatch"
    /\ rfd \in Fds
    /\ rfd \notin sessions_
    /\ rfd \notin openFds
    /\ revents = {"EPOLLHUP"}
    /\ Cardinality(Teardowns(rfd)) = 1

\* ---- UdpServerImpl: one socket, registered edge-triggered for reading ----

\* the senders: source host and port
Peers == {[host |-> "h1", port |-> 1], [host |-> "h1", port |-> 2],
          [host |-> "h2", port |-> 1]}

\* datagram payloads; a datagram may be empty
UdpPayloads == {b \in ByteSeqs : Len(b) <= 1}

\* a datagram arrives: the socket wakes epoll, which puts it on the ready list
UdpPeerSend ==
    /\ udpSent < MaxDatagrams
    /\ \E from \in Peers, bytes \in UdpPayloads :
          udpQueue' = Append(udpQueue, [from |-> from, bytes |-> bytes])
    /\ udpSent' = udpSent + 1
    /\ udpReady' = TRUE
    /\ UNCHANGED <<udpc, udpCalls>>
    /\ UNCHANGED <<tqVars, kVars, rVars, eVars, aVars, cVars, jVars, lVars, dbVars, rbVars, stVars, tpVars, plVars, erVars, spVars, ccVars>>

\* EventReactor::Run: epoll_wait reports the socket once (EPOLLET) and
\* DispatchEvent calls HandleRead
UdpEpollWait ==
    /\ udpc = "idle"
    /\ udpReady
    /\ udpReady' = FALSE
    /\ udpc' = "read"
    /\ UNCHANGED <<udpQueue, udpCalls, udpSent>>
    /\ UNCHANGED <<tqVars, kVars, rVars, eVars, aVars, cVars, jVars, lVars, dbVars, rbVars, stVars, tpVars, plVars, erVars, spVars, ccVars>>

\* recvfrom calls HandleReceive makes in one turn
RecvfromCalls(queue) == 1

\* the socket's queue after n recvfrom calls (the last may find it empty)
AfterRecvfrom(queue, n) == SubSeq(queue, Min(n, Len(queue)) + 1, Len(queue))

\* the OnReceive calls of n recvfrom calls: one for each datagram with
\* bytesRead > 0, with a UdpSession of the sender's address
UdpOnReceive(queue, n) ==
    LET got == SubSeq(queue, 1, Min(n, Len(queue)))
        call(d) == [host |-> d.from.host, port |-> d.from.port, bytes |-> d.bytes]
        F[i \in 0..Len(got)] ==
            IF i = 0 THEN <<>>
            ELSE IF got[i].bytes # <<>> THEN Append(F[i - 1], call(got[i]))
                 ELSE F[i - 1]
    IN F[Len(got)]

\* the readBuffer_ after the last recvfrom: Clear, SetCapacity (the capacity is
\* RECV_BUFFER_MAX_SIZE already), the datagram copied in, SetSize
UdpReadBuffer(rb, got) ==
    IF got = <<>> \/ got[Len(got)].bytes = <<>>
    THEN Clear(rb)
    ELSE SetSize([Clear(rb) EXCEPT !.data_ = Memcpy(@, 0, got[Len(got)].bytes)],
                 Len(got[Len(got)].bytes))

\* UdpServerImpl::HandleReceive, called by the handler's HandleRead, with a
\* listener set
UdpHandleReceive ==
    /\ udpc = "read"
    /\ udpc' = "idle"
    /\ LET n == RecvfromCalls(udpQueue)
       IN /\ udpQueue' = AfterRecvfrom(udpQueue, n)
          /\ udpCalls' = udpCalls \o UdpOnReceive(udpQueue, n)
          /\ readBuffer_' = [readBuffer_ EXCEPT !["udp"] =
                                UdpReadBuffer(@, SubSeq(udpQueue, 1, Min(n, Len(udpQueue))))]
    /\ UNCHANGED <<udpReady, udpSent, made, received>>
    /\ UNCHANGED <<tqVars, kVars, rVars, eVars, aVars, cVars, jVars, lVars, dbVars, stVars, tpVars, plVars, erVars, spVars, ccVars>>

NextUdp == UdpPeerSend \/ UdpEpollWait \/ UdpHandleReceive

SpecUdp == Init /\ [][NextUdp]_vars

\* the OnReceive calls the datagrams of a queue are due
DueCalls(queue) ==
    [i \in DOMAIN queue |-> [host |-> queue[i].from.host, port |-> queue[i].from.port,
                             bytes |-> queue[i].bytes]]

\* C31: one HandleRead turn of the UDP server reads every datagram pending on
\* the socket and calls OnReceive once for each of them, in order, with a
\* session that carries the datagram's source host and port
C31_Claim ==
    [][(udpc = "read" /\ udpc' = "idle")
          => /\ udpQueue' = <<>>
             /\ udpCalls' = udpCalls \o DueCalls(udpQueue)]_vars

\* TcpClientImpl::Send(std::shared_ptr<DataBuffer>) with a non-empty buffer
\* returns true: socket_ is valid and clientHandler_ is set
ClientSendAccepts == socket_ # INVALID_SOCKET /\ clientHandler_

\* Connect returned true for the first time on this socket
C32_ReturnsTrue == cpc # "connected" /\ cpc' = "connected"

\* a Connect that made an attempt on a socket returned false
C32_AttemptFailed == cpc # "connect_false" /\ cpc' = "connect_false" /\ socket_ # INVALID_SOCKET

\* C32: Connect returns true only with the connection established, the task
\* queue started and the handler registered with the reactor; while the last
\* Connect has returned false no handler is attached to the client, so a Send
\* returns false; and after a failed connection attempt the client holds a
\* newly created, unconnected socket for the next Connect
C32_Claim ==
    [][/\ C32_ReturnsTrue
            => /\ socket_' \in openFds'
               /\ thread_' /\ ~isExit_'
               /\ clientHandler_'
               /\ socket_' \in handlers_'
       /\ cpc' = "connect_false" => ~ClientSendAccepts'
       /\ C32_AttemptFailed
            => /\ socket_' # INVALID_SOCKET
               /\ socket_' \notin openFds']_vars

\* ---- EventReactor: construction, the loop thread and RegisterHandler ----

\* the descriptor epoll_create1 returns
EpollFd == MaxConns + 1

\* EventReactor::EventReactor up to the wait: eventfd, the loop thread is created
ReactorCtor ==
    /\ ctorPc = "none"
    /\ ctorPc' = "wait"
    /\ runPc' = "start"
    /\ UNCHANGED <<running_, epollFd_, regPc>>
    /\ UNCHANGED <<tqVars, kVars, rVars, eVars, aVars, cVars, jVars, lVars, dbVars, rbVars, stVars, tpVars, plVars, udVars, spVars, ccVars>>

\* Run: epoll_create1; Run returns when it fails
RunCreate ==
    /\ runPc = "start"
    /\ \/ /\ epollFd_' = EpollFd
          /\ runPc' = "created"
       \/ /\ runPc' = "exited"
          /\ UNCHANGED epollFd_
    /\ UNCHANGED <<running_, ctorPc, regPc>>
    /\ UNCHANGED <<tqVars, kVars, rVars, eVars, aVars, cVars, jVars, lVars, dbVars, rbVars, stVars, tpVars, plVars, udVars, spVars, ccVars>>

\* Run: running_ = true; runningSignal_.notify_all()
RunSignal ==
    /\ runPc = "created"
    /\ running_' = TRUE
    /\ runPc' = "loop"
    /\ UNCHANGED <<epollFd_, ctorPc, regPc>>
    /\ UNCHANGED <<tqVars, kVars, rVars, eVars, aVars, cVars, jVars, lVars, dbVars, rbVars, stVars, tpVars, plVars, udVars, spVars, ccVars>>

\* the constructor's runningSignal_.wait_for(lock, 5 ms, running_ == true) is
\* over: the predicate held, or the 5 milliseconds have passed
WaitOver == TRUE

\* EventReactor::EventReactor returns
CtorReturn ==
    /\ ctorPc = "wait"
    /\ WaitOver
    /\ ctorPc' = "returned"
    /\ UNCHANGED <<running_, epollFd_, runPc, regPc>>
    /\ UNCHANGED <<tqVars, kVars, rVars, eVars, aVars, cVars, jVars, lVars, dbVars, rbVars, stVars, tpVars, plVars, udVars, spVars, ccVars>>

\* TcpServerImpl::Start on a listening socket: taskQueue_->Start(), then
\* RegisterHandler(serverHandler_) up to epoll_ctl(EPOLL_CTL_ADD); GetInstance
\* has returned the reactor. Start may be called again after it returned false
StartAdd ==
    /\ ctorPc = "returned"
    /\ regPc \in {"none", "not_running"}
    /\ IF thread_
       THEN UNCHANGED <<isExit_, thread_, wpc>>
       ELSE /\ isExit_' = FALSE
            /\ thread_' = TRUE
            /\ wpc' = "wait"
    /\ IF ~running_
       THEN /\ regPc' = "not_running"
            /\ UNCHANGED <<epollInterest, readyList>>
       ELSE /\ regPc' = "added"
            /\ epollInterest' = [epollInterest EXCEPT ![ListenFd] = ToEpoll(ServerEvents)]
            /\ readyList' = ReadyAfterCtl(readyList, ListenFd, ToEpoll(ServerEvents),
                                          PollState(ListenFd))
    /\ UNCHANGED <<taskList_, isTaskExecuting_, state_, witem, ownerPc, clock, enq, executed>>
    /\ UNCHANGED <<backlog, openFds, rcvBuf, peerClosed, sockErr, sndSpace, wire>>
    /\ UNCHANGED <<rVars, eVars, aVars, cVars, jVars, lVars>>
    /\ UNCHANGED <<running_, epollFd_, ctorPc, runPc>>
    /\ UNCHANGED <<dbVars, rbVars, stVars, tpVars, plVars, udVars, spVars, ccVars>>

\* RegisterHandler after epoll_ctl: handlers_.emplace(fd, handler) under the
\* write lock, return true; Start returns true
StartEmplace ==
    /\ regPc = "added"
    /\ rpc = "idle"     \* Run holds the read lock only for the lookup
    /\ regPc' = "registered"
    /\ handlers_' = handlers_ \cup {ListenFd}
    /\ srvStarted' = TRUE
    /\ UNCHANGED <<rpc, rfd, revents, rev>>
    /\ UNCHANGED <<accepted, sessions_, connectionHandlers_, sendQueue_, writeEventsEnabled_>>
    /\ UNCHANGED <<tqVars, kVars, aVars, cVars, jVars, lVars>>
    /\ UNCHANGED <<running_, epollFd_, ctorPc, runPc>>
    /\ UNCHANGED <<dbVars, rbVars, stVars, tpVars, plVars, udVars, spVars, ccVars>>

\* Run: while (running_) epoll_wait, handler lookup
LoopEpollWait ==
    /\ runPc = "loop"
    /\ EpollWait

NextReactor ==
    \/ ReactorCtor
    \/ RunCreate
    \/ RunSignal
    \/ CtorReturn
    \/ StartAdd
    \/ StartEmplace
    \/ PeerConnect
    \/ PeerSend
    \/ LoopEpollWait
    \/ DispatchRead
    \/ HandleReceive
    \/ Worker

SpecReactor == Init /\ [][NextReactor]_vars

\* C33: when the EventReactor constructor returns, the loop thread has set
\* running_ and created the multiplexer, and no RegisterHandler call made
\* after the return is rejected because the reactor is not running
C33_Claim ==
    [][/\ (ctorPc = "wait" /\ ctorPc' = "returned")
            => /\ running_'
               /\ epollFd_' # -1
       /\ regPc' # "not_running"]_vars

\* the list is in non-decreasing order of execution time
SortedByTime(list) ==
    \A i, j \in DOMAIN list : i < j => list[i].executeTimeNs_ <= list[j].executeTimeNs_

\* C34: the TaskQueue's list is always sorted by execution time; an accepted
\* task is queued with the due time clock + delay; the worker takes a task only
\* when its due time has come, and the task it takes has the earliest due time
\* of all queued tasks, whenever they were enqueued; the task it executes is the
\* one it took
C34_Claim ==
    [][/\ SortedByTime(taskList_')
       /\ (Len(enq') = Len(enq) + 1 /\ enq'[Len(enq')].ret = 0)
            => \E i \in DOMAIN taskList_' :
                  taskList_'[i] = [task |-> Len(enq'),
                                   executeTimeNs_ |-> clock + enq'[Len(enq')].delayUs * US_TO_NS]
       /\ (wpc = "wait" /\ wpc' = "check")
            => \E i \in DOMAIN taskList_ :
                  /\ taskList_[i].task = witem'
                  /\ taskList_[i].executeTimeNs_ <= clock
                  /\ \A j \in DOMAIN taskList_ :
                        taskList_[i].executeTimeNs_ <= taskList_[j].executeTimeNs_
                  /\ taskList_' = SubSeq(taskList_, 1, i - 1) \o SubSeq(taskList_, i + 1, Len(taskList_))
       /\ executed' # executed
            => /\ executed' = Append(executed, witem)
               /\ wpc = "check"]_vars

\* the task enqueued second, with delay 0, ran before the task enqueued first
\* with a delay, and both have run
C34_Witness ==
    /\ Len(executed) = 2
    /\ executed[1] = 2
    /\ executed[2] = 1
    /\ enq[1].delayUs = 1
    /\ enq[2].delayUs = 0
    /\ clock >= US_TO_NS

\* epoll_wait reports descriptor fd in this step: the loop thread takes it off
\* the ready list with the events its interest mask asks for
EpollReports(fd) ==
    /\ rpc = "idle"
    /\ fd \in readyList
    /\ fd \notin readyList'
    /\ epollInterest' = epollInterest
    /\ PollState(fd) \cap Reported(epollInterest[fd]) # {}

\* C35: no readiness event is lost around registration: an event that the
\* kernel reports for a descriptor which RegisterHandler has added to the
\* multiplexer is dispatched to its handler, also when it is reported before
\* RegisterHandler has put the handler into the descriptor-to-handler map
C35_Claim ==
    [][\A fd \in AllFds :
          EpollReports(fd)
              => /\ rpc' = "dispatch"
                 /\ rfd' = fd
                 /\ revents' = PollState(fd) \cap Reported(epollInterest[fd])]_vars

\* the kinds of the callbacks the worker has run for connection fd, in the
\* order in which it ran them
Delivered(fd) ==
    LET mine(t) == enq[t].cb.fd = fd
        tasks == SelectSeq(executed, mine)
    IN [i \in DOMAIN tasks |-> enq[tasks[i]].cb.kind]

\* C36: with a listener set, the callbacks delivered for one accepted
\* connection are OnAccept, then OnReceive zero or more times, then at most one
\* OnClose or OnError: OnAccept comes first and once, and nothing follows an
\* OnClose or OnError
C36_Claim ==
    \A fd \in Fds :
        LET d == Delivered(fd)
        IN /\ d # <<>> => d[1] = "OnAccept"
           /\ \A i \in DOMAIN d :
                 /\ d[i] \in {"OnAccept", "OnReceive", "OnClose", "OnError"}
                 /\ d[i] = "OnAccept" => i = 1
                 /\ d[i] \in {"OnClose", "OnError"} => i = Len(d)

\* one connection got OnAccept, OnReceive, OnError and another OnAccept,
\* OnReceive, OnReceive, OnClose
C36_Witness ==
    \E fd, other \in Fds :
        /\ Delivered(fd) = <<"OnAccept", "OnReceive", "OnError">>
        /\ Delivered(other) = <<"OnAccept", "OnReceive", "OnReceive", "OnClose">>

\* ---- TcpServerImpl::Stop on the caller's thread, the reactor running ----

\* Stop: the descriptors of sessions_ are copied into the vector clientFds
StopSnapshot ==
    /\ stopPc = "none"
    /\ srvStarted
    /\ stopPc' = "clients"
    /\ clientFds' = sessions_
    /\ UNCHANGED <<tqVars, kVars, rVars, eVars, aVars, cVars, jVars, lVars>>
    /\ UNCHANGED <<dbVars, rbVars, stVars, tpVars, plVars, udVars, erVars, ccVars>>

\* the next descriptor of the vector (std::map order)
NextClientFd == CHOOSE fd \in clientFds : \A other \in clientFds : fd <= other

\* Stop: one round of the loop: RemoveHandler(clientFd), close(clientFd),
\* connectionHandlers_.erase(clientFd)
StopClient ==
    /\ stopPc = "clients"
    /\ clientFds # {}
    /\ LET fd == NextClientFd
       IN /\ clientFds' = clientFds \ {fd}
          /\ handlers_' = handlers_ \ {fd}
          /\ epollInterest' = [epollInterest EXCEPT ![fd] = {}]
          /\ readyList' = readyList \ {fd}
          /\ openFds' = openFds \ {fd}
          /\ connectionHandlers_' = connectionHandlers_ \ {fd}
    /\ UNCHANGED stopPc
    /\ UNCHANGED <<backlog, rcvBuf, peerClosed, sockErr, sndSpace, wire>>
    /\ UNCHANGED <<rpc, rfd, revents, rev>>
    /\ UNCHANGED <<srvStarted, accepted, sessions_, sendQueue_, writeEventsEnabled_>>
    /\ UNCHANGED <<tqVars, aVars, cVars, jVars, lVars>>
    /\ UNCHANGED <<dbVars, rbVars, stVars, tpVars, plVars, udVars, erVars, ccVars>>

\* Stop: sessions_.clear() after the loop
StopClear ==
    /\ stopPc = "clients"
    /\ clientFds = {}
    /\ stopPc' = "listener"
    /\ sessions_' = {}
    /\ UNCHANGED clientFds
    /\ UNCHANGED <<srvStarted, accepted, connectionHandlers_, sendQueue_, writeEventsEnabled_>>
    /\ UNCHANGED <<tqVars, kVars, rVars, aVars, cVars, jVars, lVars>>
    /\ UNCHANGED <<dbVars, rbVars, stVars, tpVars, plVars, udVars, erVars, ccVars>>

\* Stop: RemoveHandler(socket_), close(socket_), then taskQueue_->Stop() up to
\* the join; the connections still waiting on the listening socket are dropped
StopListener ==
    /\ stopPc = "listener"
    /\ ownerPc = "idle"
    /\ stopPc' = "queue"
    /\ handlers_' = handlers_ \ {ListenFd}
    /\ epollInterest' = [epollInterest EXCEPT ![ListenFd] = {}]
    /\ readyList' = readyList \ {ListenFd}
    /\ backlog' = 0
    /\ isExit_' = TRUE
    /\ thread_' = FALSE
    /\ ownerPc' = "joining"
    /\ UNCHANGED clientFds
    /\ UNCHANGED <<taskList_, isTaskExecuting_, state_, wpc, witem, clock, enq, executed>>
    /\ UNCHANGED <<openFds, rcvBuf, peerClosed, sockErr, sndSpace, wire>>
    /\ UNCHANGED <<rpc, rfd, revents, rev>>
    /\ UNCHANGED <<eVars, aVars, cVars, jVars, lVars>>
    /\ UNCHANGED <<dbVars, rbVars, stVars, tpVars, plVars, udVars, erVars, ccVars>>

\* a peer connects to the listening socket while it is open
ListenPeerConnect ==
    /\ stopPc \in {"none", "clients", "listener"}
    /\ PeerConnect

NextStop ==
    \/ SrvStart
    \/ ListenPeerConnect
    \/ PeerClose
    \/ EpollWait
    \/ DispatchRead
    \/ HandleReceive
    \/ DispatchClose
    \/ Worker
    \/ StopSnapshot
    \/ StopClient
    \/ StopClear
    \/ StopListener
    \/ TaskProcessorExit
    \/ TqStopEnd

SpecStop == Init /\ [][NextStop]_vars

\* the step is the return of HandleAccept (with a connection accepted), of
\* HandleConnectionClose (with a connection torn down) or of Stop
C37_Completes ==
    \/ accepted' = accepted + 1
    \/ \E fd \in Fds : fd \in sessions_ /\ fd \notin sessions_' /\ stopPc' = stopPc
    \/ stopPc = "queue" /\ ownerPc = "joining" /\ ownerPc' = "idle"

\* C37: after each of HandleAccept, HandleConnectionClose and Stop completes,
\* sessions_ and connectionHandlers_ hold exactly the same descriptors and each
\* of them is registered in the reactor's map, however Stop on the caller's
\* thread interleaves with the accept and close events on the reactor thread
C37_Claim ==
    [][C37_Completes
          => /\ sessions_' = connectionHandlers_'
             /\ sessions_' \subseteq handlers_']_vars

\* GetResult on task t returns without waiting: state_ is FINISHED or CANCELED
GetResultReturns(t) == state_[t] \in {"FINISHED", "CANCELED"}

\* C38: a GetResult call on an accepted non-periodic task eventually returns:
\* at any time the task is FINISHED or CANCELED already, or it is still in the
\* list (the worker will pop it or Stop will cancel it), or the worker holds
\* it and is about to run or is running its function; a task in none of
\* these positions would keep GetResult waiting for ever
C38_Claim ==
    \A t \in DOMAIN enq :
        (enq[t].ret = 0 /\ PeriodicTimeUs(t) = UINT64_MAX)
            => \/ GetResultReturns(t)
               \/ InList(taskList_, t)
               \/ witem = t /\ wpc \in {"check", "run"}

\* ---------------------------------------------------------------------------
\* TaskHandler: Cancel and the reuse of a task object
\* ---------------------------------------------------------------------------

\* TaskQueue::EnqueueTask(task, cancelNotExecuted, delayUs) with a task object
\* t that was passed to EnqueueTask before: task->Clear(), then the insert
EnqueueTaskAgain(t, cancelNotExecuted, delayUs) ==
    LET ret == EnqueueRet(delayUs)
        base == IF cancelNotExecuted THEN <<>> ELSE taskList_
        st1 == [state_ EXCEPT ![t] = ClearState(@)]
        st2 == IF cancelNotExecuted THEN CancelAll(taskList_, st1) ELSE st1
        executeTimeNs == delayUs * US_TO_NS + clock
    IN  IF ret = 0
        THEN /\ taskList_' = InsertAt(base, InsertPos(base, executeTimeNs),
                                      [task |-> t, executeTimeNs_ |-> executeTimeNs])
             /\ state_' = st2
        ELSE /\ taskList_' = taskList_
             /\ state_' = st1

\* a holder of a task enqueues the same task object again, here once the
\* queue has drained and while fewer than MaxTasks runs were started
TqEnqueueAgain ==
    /\ UNCHANGED <<kVars, rVars, eVars, aVars>>
    /\ taskList_ = <<>>
    /\ Len(executed) < MaxTasks
    /\ \E t \in DOMAIN enq, cancelNotExecuted \in BOOLEAN, delayUs \in Delays :
          EnqueueTaskAgain(t, cancelNotExecuted, delayUs)
    /\ UNCHANGED <<isExit_, thread_, isTaskExecuting_, wpc, witem, ownerPc, clock, enq,
                   executed>>
    /\ UNCHANGED cVars
    /\ UNCHANGED <<jVars, lVars, bVars>>

\* a holder of a task calls TaskHandler::Cancel on it, whatever its state
CancelCall ==
    /\ UNCHANGED <<kVars, rVars, eVars, aVars>>
    /\ Len(cancels) < MaxCancels
    /\ \E t \in DOMAIN enq :
          /\ cancels' = Append(cancels, t)
          /\ state_' = [state_ EXCEPT ![t] = CancelState(@)]
    /\ UNCHANGED <<taskList_, isExit_, thread_, isTaskExecuting_, wpc, witem, ownerPc,
                   clock, enq, executed>>
    /\ UNCHANGED cVars
    /\ UNCHANGED <<jVars, lVars>>
    /\ UNCHANGED <<dbVars, rbVars, stVars, tpVars, plVars, udVars, erVars, spVars>>

NextTQCancel ==
    \/ TqStart
    \/ TqEnqueue
    \/ TqEnqueueAgain
    \/ CancelCall
    \/ TaskProcessorTake
    \/ TaskProcessorExecute
    \/ TaskProcessorDone

SpecTQCancel == Init /\ [][NextTQCancel]_vars

(* C39: a Cancel call leaves a RUNNING task RUNNING and moves a task in any
   other state to CANCELED, changing no other task; a task that is CANCELED
   stays CANCELED in every step, including an EnqueueTask of the same task
   object, and no run of its function is started. *)
C39_Claim ==
    [][/\ Len(cancels') = Len(cancels) + 1
            => LET t == cancels'[Len(cancels')]
               IN  state_' = [state_ EXCEPT
                                 ![t] = IF @ = "RUNNING" THEN "RUNNING" ELSE "CANCELED"]
       /\ \A t \in DOMAIN enq :
             state_[t] = "CANCELED"
                 => /\ state_'[t] = "CANCELED"
                    /\ executed' # executed => executed'[Len(executed')] # t]_vars

\* a task that ran once was canceled afterwards, was enqueued again and has
\* been taken by the worker, and another task finished the run during which
\* Cancel was called on it
C39_Witness ==
    /\ wpc = "check"
    /\ state_[witem] = "CANCELED"
    /\ \E i \in DOMAIN executed : executed[i] = witem
    /\ \E i \in DOMAIN cancels : state_[cancels[i]] = "FINISHED"

\* ---------------------------------------------------------------------------
\* TaskQueue::Stop called from a task
\* ---------------------------------------------------------------------------

\* the function of the running task calls TaskQueue::Stop on the worker
\* thread: a stopped queue returns 0 at once; otherwise isExit_ is set, thread_
\* is swapped into t and t->join() is called on the worker itself, which
\* throws std::system_error (resource_deadlock_would_occur); the exception
\* leaves a noexcept function: std::terminate
StopInTask ==
    /\ UNCHANGED <<kVars, rVars, eVars, aVars>>
    /\ wpc = "run"
    /\ IF isExit_
       THEN UNCHANGED <<isExit_, thread_, wpc>>
       ELSE /\ isExit_' = TRUE
            /\ thread_' = FALSE
            /\ wpc' = "terminated"
    /\ UNCHANGED <<taskList_, isTaskExecuting_, state_, witem, ownerPc, clock, enq, executed>>
    /\ UNCHANGED cVars
    /\ UNCHANGED <<jVars, lVars, bVars>>

NextTQSelfStop ==
    \/ TqStart
    \/ TqStopBegin
    \/ TqStopEnd
    \/ TqEnqueue
    \/ Tick
    \/ TqWorker
    \/ StopInTask

SpecTQSelfStop == Init /\ [][NextTQSelfStop]_vars

(* C40: every call of TaskQueue::Stop returns to its caller: a call made by
   the function of a task on the worker thread does not end the process, and
   while a call made on another thread waits in the join the exit flag is set
   and the worker is running or has left its loop. *)
C40_Claim ==
    /\ wpc # "terminated"
    /\ ownerPc = "joining" => isExit_ /\ wpc \in {"wait", "check", "run", "dead"}

====
